---- MODULE Spec2Model ----
(***************************************************************************)
(* gh-worktree: worktree creation for pull requests (internal/worktree),   *)
(* the validators (internal/validate), the git gateway (internal/git) and  *)
(* the command handlers of main.go, as one state machine.                  *)
(*                                                                         *)
(* A string is a sequence of symbols.  Data that comes from the user or    *)
(* from the GitHub API (branch names, titles, owners, numbers as text) is  *)
(* spelled one character per symbol; the fixed words the program itself    *)
(* puts into a git command line ("fetch", "refs/heads/", "branch.") are    *)
(* one symbol each.                                                        *)
(***************************************************************************)
EXTENDS Integers, Sequences, FiniteSets, TLC

\* ------------------------------------------------------------------ bounds
MaxOps == 2        \* invocations of the tool in one behaviour

\* --------------------------------------------------------- string helpers
Lit(w) == <<w>>

NL == "NL"
CR == "CR"
TAB == "TAB"
NUL == "NUL"
SP == " "

Whitespace == {SP, NL, CR, TAB}

LowerLetters == {"a","b","c","d","e","f","g","h","i","j","k","l","m",
                 "n","o","p","q","r","s","t","u","v","w","x","y","z"}
UpperLetters == {"A","B","C","D","E","F","G","H","I","J","K","L","M",
                 "N","O","P","Q","R","S","T","U","V","W","X","Y","Z"}
DigitSeq == <<"0","1","2","3","4","5","6","7","8","9">>
Digits == {DigitSeq[i] : i \in 1..10}

HasPrefix(s, p) == Len(s) >= Len(p) /\ SubSeq(s, 1, Len(p)) = p
HasSuffix(s, p) == Len(s) >= Len(p) /\ SubSeq(s, Len(s) - Len(p) + 1, Len(s)) = p
Contains(s, sub) == \E i \in 1..(Len(s) - Len(sub) + 1) : SubSeq(s, i, i + Len(sub) - 1) = sub
TrimPrefix(s, p) == IF HasPrefix(s, p) THEN SubSeq(s, Len(p) + 1, Len(s)) ELSE s

\* strings.ReplaceAll(s, old, new) for a one-symbol old, computed on the
\* two halves of s
RECURSIVE ReplaceAll(_, _, _)
ReplaceAll(s, old, new) ==
  IF s = <<>> THEN <<>>
  ELSE IF Len(s) = 1 THEN (IF s[1] = old THEN new ELSE s)
  ELSE ReplaceAll(SubSeq(s, 1, Len(s) \div 2), old, new)
       \o ReplaceAll(SubSeq(s, (Len(s) \div 2) + 1, Len(s)), old, new)

RECURSIVE TrimLeft(_)
TrimLeft(s) == IF s # <<>> /\ Head(s) \in Whitespace THEN TrimLeft(Tail(s)) ELSE s
RECURSIVE TrimRight(_)
TrimRight(s) ==
  IF s # <<>> /\ s[Len(s)] \in Whitespace THEN TrimRight(SubSeq(s, 1, Len(s) - 1)) ELSE s
TrimSpace(s) == TrimRight(TrimLeft(s))

\* strconv.Itoa
RECURSIVE ItoaNat(_)
ItoaNat(n) == IF n < 10 THEN <<DigitSeq[n + 1]>> ELSE ItoaNat(n \div 10) \o <<DigitSeq[(n % 10) + 1]>>
Itoa(n) == IF n < 0 THEN <<"-">> \o ItoaNat(0 - n) ELSE ItoaNat(n)

DigitVal(c) == CHOOSE i \in 0..9 : DigitSeq[i + 1] = c
RECURSIVE DigitsVal(_, _)
DigitsVal(s, acc) == IF s = <<>> THEN acc ELSE DigitsVal(Tail(s), acc * 10 + DigitVal(Head(s)))
RECURSIVE LeadingDigits(_)
LeadingDigits(s) ==
  IF s # <<>> /\ Head(s) \in Digits THEN <<Head(s)>> \o LeadingDigits(Tail(s)) ELSE <<>>

\* the range of a 64-bit int, as decimal numerals
MaxInt64 == <<"9","2","2","3","3","7","2","0","3","6","8","5","4","7","7","5","8","0","7">>
MinInt64 == <<"9","2","2","3","3","7","2","0","3","6","8","5","4","7","7","5","8","0","8">>

RECURSIVE TrimZeros(_)
TrimZeros(s) == IF Len(s) > 1 /\ Head(s) = "0" THEN TrimZeros(Tail(s)) ELSE s

\* a <= b for two numerals of the same length
RECURSIVE LexLeq(_, _)
LexLeq(a, b) ==
  \/ a = <<>>
  \/ DigitVal(Head(a)) < DigitVal(Head(b))
  \/ Head(a) = Head(b) /\ LexLeq(Tail(a), Tail(b))

NumeralLeq(a, b) == Len(a) < Len(b) \/ (Len(a) = Len(b) /\ LexLeq(a, b))

\* strconv.ParseInt(s, 10, 64) does not report a range error
FitsInt64(negative, ds) ==
  NumeralLeq(TrimZeros(ds), IF negative THEN MinInt64 ELSE MaxInt64)

\* fmt.Sscanf(s, "%d", &n): leading blanks are skipped, an optional sign is
\* read, then the longest run of digits; what follows is left unread.  No
\* digit, or a number outside the int range, is an error (n = 0).
Sscanf(s) ==
  LET t == TrimLeft(s)
      signed == t # <<>> /\ Head(t) \in {"+", "-"}
      negative == signed /\ Head(t) = "-"
      scanned(ds) ==
        IF ds = <<>> \/ ~FitsInt64(negative, ds) THEN [n |-> 0, value |-> 0]
        ELSE [n |-> 1, value |-> IF negative THEN 0 - DigitsVal(ds, 0) ELSE DigitsVal(ds, 0)]
  IN scanned(LeadingDigits(IF signed THEN Tail(t) ELSE t))

\* ------------------------------------------------------ internal/validate
MaxBranchNameLen == 255
MaxRepoNameLen == 100
MaxPRNumber == 999999

validBranchName(name) ==
  name # <<>> /\ \A i \in 1..Len(name) :
     name[i] \in LowerLetters \cup UpperLetters \cup Digits \cup {".", "_", "/", "-"}
validRepoName(name) ==
  name # <<>> /\ \A i \in 1..Len(name) :
     name[i] \in LowerLetters \cup UpperLetters \cup Digits \cup {".", "_", "-"}

\* the backquote and the quote, spelled as words
BQ == "BQ"
SQ == "SQ"
ShellSpecial == <<";", "&", "|", BQ, "$", "(", ")", "<", ">", SQ, "\"", "\\">>

RECURSIVE RemoveEach(_, _)
RemoveEach(value, chars) ==
  IF chars = <<>> THEN value ELSE RemoveEach(ReplaceAll(value, Head(chars), <<>>), Tail(chars))

\* SanitizeForGitConfig that trims before it removes the special characters
SanitizeForGitConfigTrimFirst(value) ==
  LET v1 == ReplaceAll(value, NUL, <<>>)
      v2 == ReplaceAll(v1, NL, <<SP>>)
      v3 == ReplaceAll(v2, CR, <<SP>>)
      v4 == ReplaceAll(v3, TAB, <<SP>>)
  IN RemoveEach(TrimSpace(v4), ShellSpecial)

\* SanitizeForGitConfig that leaves the tab alone
SanitizeForGitConfigKeepsTab(value) ==
  LET v1 == ReplaceAll(value, NUL, <<>>)
      v2 == ReplaceAll(v1, NL, <<SP>>)
      v3 == ReplaceAll(v2, CR, <<SP>>)
  IN TrimSpace(RemoveEach(v3, ShellSpecial))

SanitizeForGitConfig(value) ==
  LET v1 == ReplaceAll(value, NUL, <<>>)
      v2 == ReplaceAll(v1, NL, <<SP>>)
      v3 == ReplaceAll(v2, CR, <<SP>>)
      v4 == ReplaceAll(v3, TAB, <<SP>>)
  IN TrimSpace(RemoveEach(v4, ShellSpecial))

\* BranchName without the check of the first and the last character
BranchNameAnyFormat(name) ==
  IF name = <<>> THEN "branch name cannot be empty"
  ELSE IF Len(name) > MaxBranchNameLen THEN "branch name too long"
  ELSE IF ~validBranchName(name) THEN "invalid branch name: contains unsafe characters"
  ELSE ""

\* RepoName that matches the pattern before it looks for ..
RepoNamePatternFirst(name) ==
  IF name = <<>> THEN "repository name cannot be empty"
  ELSE IF Len(name) > MaxRepoNameLen THEN "repository name too long"
  ELSE IF ~validRepoName(name) THEN "invalid repository name: contains unsafe characters"
  ELSE IF Contains(name, <<".", ".">>) THEN "repository name contains path traversal"
  ELSE ""

\* the validators return the error, "" for nil
BranchName(name) ==
  IF name = <<>> THEN "branch name cannot be empty"
  ELSE IF Len(name) > MaxBranchNameLen THEN "branch name too long"
  ELSE IF ~validBranchName(name) THEN "invalid branch name: contains unsafe characters"
  ELSE IF HasPrefix(name, <<"-">>) \/ HasSuffix(name, <<"/">>) THEN "invalid branch name format"
  ELSE ""

RepoName(name) ==
  IF name = <<>> THEN "repository name cannot be empty"
  ELSE IF Len(name) > MaxRepoNameLen THEN "repository name too long"
  ELSE IF Contains(name, <<".", ".">>) THEN "repository name contains path traversal"
  ELSE IF ~validRepoName(name) THEN "invalid repository name: contains unsafe characters"
  ELSE ""

PRNumber(prNumber) ==
  IF prNumber <= 0 \/ prNumber > MaxPRNumber THEN "invalid PR number" ELSE ""


\* first index of symbol c in s, 0 when absent
IndexOf(s, c) == IF \E i \in 1..Len(s) : s[i] = c
                 THEN CHOOSE i \in 1..Len(s) : s[i] = c /\ \A j \in 1..(i - 1) : s[j] # c
                 ELSE 0
LastIndexOf(s, c) == IF \E i \in 1..Len(s) : s[i] = c
                     THEN CHOOSE i \in 1..Len(s) : s[i] = c /\ \A j \in (i + 1)..Len(s) : s[j] # c
                     ELSE 0
Before(s, c) == IF IndexOf(s, c) = 0 THEN s ELSE SubSeq(s, 1, IndexOf(s, c) - 1)
After(s, c) == IF IndexOf(s, c) = 0 THEN <<>> ELSE SubSeq(s, IndexOf(s, c) + 1, Len(s))

ToLower(c) ==
  CASE c = "H" -> "h" [] c = "T" -> "t" [] c = "P" -> "p" [] c = "S" -> "s" [] OTHER -> c
LowerStr(s) == [i \in 1..Len(s) |-> ToLower(s[i])]

Https == <<"h","t","t","p","s">>
GitHubHost == <<"g","i","t","h","u","b",".","c","o","m">>

\* net/url getScheme: letters, then letters, digits, + - . up to the first ":"
urlScheme(u) ==
  LET i == IndexOf(u, ":")
      ok(k) == u[k] \in LowerLetters \cup UpperLetters
               \/ (k > 1 /\ u[k] \in Digits \cup {"+", "-", "."})
  IN IF i > 1 /\ \A k \in 1..(i - 1) : ok(k) THEN SubSeq(u, 1, i - 1) ELSE <<>>

\* url.Parse, as far as validate.URL reads its result: the fragment and the
\* query are cut off, then the scheme, then the authority after "//" up to
\* the next "/"; User is set when the authority holds an "@".
urlAuthority(rest) ==
  IF HasPrefix(rest, <<"/", "/">>) THEN Before(SubSeq(rest, 3, Len(rest)), "/") ELSE <<>>

urlAfterScheme(u, scheme) ==
  Before(IF scheme = <<>> THEN u ELSE SubSeq(u, Len(scheme) + 2, Len(u)), "?")

urlParts(u, scheme, authority) ==
  [err |-> (\E i \in 1..Len(u) : u[i] \in {NUL, NL, CR, TAB}) \/ IndexOf(u, ":") = 1,
   Scheme |-> LowerStr(scheme),
   User |-> LastIndexOf(authority, "@") # 0,
   Host |-> SubSeq(authority, LastIndexOf(authority, "@") + 1, Len(authority))]

urlFrom(u, scheme) == urlParts(u, scheme, urlAuthority(urlAfterScheme(u, scheme)))

urlParse(rawURL) == urlFrom(Before(rawURL, "#"), urlScheme(Before(rawURL, "#")))

\* validate.URL without the check for credentials
URLWithCredentials(urlStr) ==
  LET check(u) ==
        IF u.err THEN "invalid URL format"
        ELSE IF u.Scheme # Https THEN "only HTTPS URLs are allowed"
        ELSE IF u.Host # GitHubHost THEN "only github.com URLs are allowed"
        ELSE ""
  IN IF urlStr = <<>> THEN "URL cannot be empty" ELSE check(urlParse(urlStr))

\* validate.URL: url.Parse succeeds, Scheme == "https", User == nil,
\* Host == "github.com"
URL(urlStr) ==
  LET check(u) ==
        IF u.err THEN "invalid URL format"
        ELSE IF u.Scheme # Https THEN "only HTTPS URLs are allowed"
        ELSE IF u.User THEN "URL cannot contain credentials"
        ELSE IF u.Host # GitHubHost THEN "only github.com URLs are allowed"
        ELSE ""
  IN IF urlStr = <<>> THEN "URL cannot be empty" ELSE check(urlParse(urlStr))

\* ------------------------------------------------------------- file paths
\* the directory that holds the main repository and its sibling worktrees
ParentDir == <<"/par">>
\* the directory name of the main repository and the owner of the repository
MainRepoName == <<"r">>
RepoOwner == <<"o">>
MainBranch == <<"m">>

Dir(path) == SubSeq(path, 1, LastIndexOf(path, "/") - 1)
Base(path) == SubSeq(path, LastIndexOf(path, "/") + 1, Len(path))
Join(dir, name) == dir \o <<"/">> \o name

\* git.GetRoot: the root of the main repository
GetRoot == Join(ParentDir, MainRepoName)

\* filepath.EvalSymlinks on a directory: /lnk is a symbolic link to /par
EvalSymlinks(dir) == IF dir = <<"/lnk">> THEN ParentDir ELSE dir

\* what git.GetRoot can return in the main worktree: git prints the common
\* directory as the relative .git, and GetRoot joins it to os.Getwd, which
\* names the directory by the path it was entered through: the resolved one
\* or the one through the link.  git worktree list reports resolved paths.
GetRootOutcomes == {GetRoot, Join(<<"/lnk">>, MainRepoName)}

GeneratePath(repoName, prNumber) ==
  Join(Dir(GetRoot), repoName \o <<"-", "p", "r">> \o Itoa(prNumber))

GeneratePathForBranch(repoName, branchName) ==
  LET sanitizedBranchName == ReplaceAll(branchName, "/", <<"-">>)
  IN Join(Dir(GetRoot), repoName \o <<"-">> \o sanitizedBranchName)

\* ------------------------------------------------------------ internal/git
\* The repository is a record st: wts, the worktrees [Path, Branch] (Branch
\* empty when HEAD is detached); brs, the local branches; cfg, the entries
\* [branch, key, value] of the local configuration branch.<branch>.<key>.
HasConfig(cfg, b, k) == \E e \in cfg : e.branch = b /\ e.key = k
StoredValue(cfg, b, k) == (CHOOSE e \in cfg : e.branch = b /\ e.key = k).value
PutConfig(cfg, b, k, v) ==
  {e \in cfg : ~(e.branch = b /\ e.key = k)} \cup {[branch |-> b, key |-> k, value |-> v]}

PathExists(st, path) == \E w \in st.wts : w.Path = path
CheckedOut(st, b) == b # <<>> /\ \E w \in st.wts : w.Branch = b

ConfigKey(b, k) == <<"branch.">> \o b \o <<".", k>>
KeyBranch(key) == SubSeq(key, 2, Len(key) - 2)
KeyName(key) == key[Len(key)]

\* GetConfig(path, key): git -C path config --local key, output trimmed
GetConfig(st, path, b, k) ==
  IF PathExists(st, path) /\ HasConfig(st.cfg, b, k)
  THEN [err |-> FALSE, value |-> TrimSpace(StoredValue(st.cfg, b, k))]
  ELSE [err |-> TRUE, value |-> <<>>]

\* SetConfig(path, key, value): git -C path config key value.  The process
\* cannot be started with a NUL byte in an argument; envFail is a failure of
\* the command for a reason outside the model (locked or read-only config).
SetConfig(st, path, b, k, value, envFail) ==
  IF envFail \/ ~PathExists(st, path) \/ (\E i \in 1..Len(value) : value[i] = NUL)
  THEN [err |-> TRUE, cfg |-> st.cfg]
  ELSE [err |-> FALSE, cfg |-> PutConfig(st.cfg, b, k, value)]

BranchExists(st, branchName) == branchName \in st.brs

GetBranchName(st, worktreePath) ==
  IF ~PathExists(st, worktreePath) THEN <<>>
  ELSE LET w == CHOOSE w \in st.wts : w.Path = worktreePath
       IN IF w.Branch = <<>> THEN Lit("HEAD") ELSE w.Branch

IsFetch(cmd) == cmd[1] = Lit("fetch")
IsWorktreeAdd(cmd) == Len(cmd) >= 2 /\ cmd[1] = Lit("worktree") /\ cmd[2] = Lit("add")
IsInWorktree(cmd) == cmd[1] = Lit("-C")
IsConfig(cmd) == Len(cmd) >= 3 /\ cmd[1] = Lit("-C") /\ cmd[3] = Lit("config")
IsSubmodule(cmd) == cmd[1] = Lit("submodule")

\* git worktree add [-b <branch> | --force | --detach] <path> [<commit-ish>]
AddPath(cmd) == IF cmd[3] = Lit("-b") THEN cmd[5]
                ELSE IF cmd[3] \in {Lit("--force"), Lit("--detach")} THEN cmd[4] ELSE cmd[3]
AddBranch(cmd) == IF cmd[3] = Lit("-b") THEN cmd[4]
                  ELSE IF cmd[3] = Lit("--detach") THEN <<>>
                  ELSE IF cmd[3] = Lit("--force") THEN cmd[5] ELSE cmd[4]

\* the local branch a fetch writes: the part of <src>:<dst> after the colon
FetchDest(cmd) == After(cmd[3], ":")

\* One git command on the repository: [ok, st].  git refuses to add a
\* worktree at an existing path, to create (-b) an existing branch, to check
\* out a missing branch or (without --force) a branch that is checked out in
\* another worktree, to fetch into a checked-out branch, and to run in a
\* directory (-C) that does not exist.  merge, reset and submodule change
\* nothing that is modelled here.
GitApply(cmd, st) ==
  IF IsWorktreeAdd(cmd) THEN
    LET path == AddPath(cmd)
        b == AddBranch(cmd)
        create == cmd[3] = Lit("-b")
        refused == \/ PathExists(st, path)
                   \/ create /\ b \in st.brs
                   \/ ~create /\ b # <<>> /\ b \notin st.brs
                   \/ ~create /\ cmd[3] # Lit("--force") /\ CheckedOut(st, b)
    IN IF refused THEN [ok |-> FALSE, st |-> st]
       ELSE [ok |-> TRUE,
             st |-> [st EXCEPT !.wts = @ \cup {[Path |-> path, Branch |-> b]},
                               !.brs = IF b = <<>> THEN @ ELSE @ \cup {b}]]
  ELSE IF IsFetch(cmd) THEN
    LET dst == FetchDest(cmd)
    IN IF CheckedOut(st, dst) THEN [ok |-> FALSE, st |-> st]
       ELSE [ok |-> TRUE, st |-> [st EXCEPT !.brs = IF dst = <<>> THEN @ ELSE @ \cup {dst}]]
  ELSE IF IsConfig(cmd) THEN
    IF ~PathExists(st, cmd[2]) THEN [ok |-> FALSE, st |-> st]
    ELSE [ok |-> TRUE,
          st |-> [st EXCEPT !.cfg = PutConfig(@, KeyBranch(cmd[4]), KeyName(cmd[4]), cmd[5])]]
  ELSE IF IsInWorktree(cmd) THEN [ok |-> PathExists(st, cmd[2]), st |-> st]
  ELSE [ok |-> TRUE, st |-> st]

\* ExecuteCommands(cmdQueue): the commands in order, return at the first
\* failure.  fail is the position of a command that fails for a reason
\* outside the model (network, diverged history), 0 for none.  ran counts the
\* commands that were started.
RECURSIVE ExecFrom(_, _, _, _)
ExecFrom(cmdQueue, i, st, fail) ==
  IF i > Len(cmdQueue) THEN [err |-> "", ran |-> Len(cmdQueue), st |-> st]
  ELSE LET r == GitApply(cmdQueue[i], st)
       IN IF i = fail \/ ~r.ok
          THEN [err |-> "failed to execute git", ran |-> i, st |-> st]
          ELSE ExecFrom(cmdQueue, i + 1, r.st, fail)

\* ExecuteCommands that goes on with the rest of the queue after a failure
ExecuteCommandsKeepGoing(cmdQueue, st, fail) ==
  LET rest(x) == IF x.err = "" THEN x
                 ELSE [x EXCEPT !.st = ExecFrom(cmdQueue, x.ran + 1, x.st, 0).st]
  IN rest(ExecFrom(cmdQueue, 1, st, fail))

ExecuteCommands(cmdQueue, st, fail) == ExecFrom(cmdQueue, 1, st, fail)

\* ExecuteCommands hands its own standard output to every git command
\* (cmd.Stdout = os.Stdout).  What git writes there when the command
\* succeeds: worktree add and reset --hard report the commit that is checked
\* out, merge reports the fast-forward or that there is none.
GitStdout(cmd) ==
  IF IsWorktreeAdd(cmd) THEN <<Lit("HEAD is now at")>>
  ELSE IF IsInWorktree(cmd) /\ cmd[3] = Lit("reset") THEN <<Lit("HEAD is now at")>>
  ELSE IF IsInWorktree(cmd) /\ cmd[3] = Lit("merge") THEN <<Lit("Already up to date.")>>
  ELSE <<>>

\* the standard output of the first n commands of the queue
RECURSIVE BatchStdout(_, _)
BatchStdout(cmdQueue, n) ==
  IF n <= 0 THEN <<>> ELSE BatchStdout(cmdQueue, n - 1) \o GitStdout(cmdQueue[n])

\* the commands of a queue that ran to their end, given what ExecuteCommands
\* returned: all but the failing one
Finished(x) == IF x.err = "failed to execute git" THEN x.ran - 1 ELSE x.ran

\* ------------------------------------------------ internal/worktree Creator
Nil == [Name |-> <<"<nil>">>, URL |-> <<>>]

FirstNamed(remotes, name) ==
  remotes[CHOOSE i \in 1..Len(remotes) :
            remotes[i].Name = name /\ \A j \in 1..(i - 1) : remotes[j].Name # name]

\* findBaseRemote with the preference reversed: origin before upstream
findBaseRemoteOriginFirst(remotes) ==
  IF \E i \in 1..Len(remotes) : remotes[i].Name = Lit("origin")
    THEN FirstNamed(remotes, Lit("origin"))
  ELSE IF \E i \in 1..Len(remotes) : remotes[i].Name = Lit("upstream")
    THEN FirstNamed(remotes, Lit("upstream"))
  ELSE IF Len(remotes) > 0 THEN remotes[1]
  ELSE Nil

findBaseRemote(remotes) ==
  IF \E i \in 1..Len(remotes) : remotes[i].Name = Lit("upstream")
    THEN FirstNamed(remotes, Lit("upstream"))
  ELSE IF \E i \in 1..Len(remotes) : remotes[i].Name = Lit("origin")
    THEN FirstNamed(remotes, Lit("origin"))
  ELSE IF Len(remotes) > 0 THEN remotes[1]
  ELSE Nil

findHeadRemote(remotes, pr) ==
  LET match(i) == Contains(remotes[i].URL, pr.HeadOwner) /\ Contains(remotes[i].URL, pr.HeadRepoName)
  IN IF \E i \in 1..Len(remotes) : match(i)
     THEN remotes[CHOOSE i \in 1..Len(remotes) : match(i) /\ \A j \in 1..(i - 1) : ~match(j)]
     ELSE Nil

\* cmdsForExistingRemote that resets an existing branch whether or not
\* Force is set
cmdsForExistingRemoteAlwaysReset(st, remote, pr, opts, worktreePath, branchName) ==
  LET remoteBranch == remote.Name \o <<"/">> \o pr.HeadRef
      refSpec == IF opts.Detach THEN <<"+refs/heads/">> \o pr.HeadRef
                 ELSE <<"+refs/heads/">> \o pr.HeadRef \o <<":refs/remotes/">> \o remoteBranch
      fetch == <<Lit("fetch"), remote.Name, refSpec, Lit("--no-tags")>>
      tracking == <<"refs/remotes/">> \o remoteBranch
      rest ==
        IF opts.Detach
          THEN << <<Lit("worktree"), Lit("add"), Lit("--detach"), worktreePath, Lit("FETCH_HEAD")>> >>
        ELSE IF BranchExists(st, branchName)
          THEN << <<Lit("worktree"), Lit("add"), Lit("--force"), worktreePath, branchName>>,
                  <<Lit("-C"), worktreePath, Lit("reset"), Lit("--hard"), tracking>> >>
        ELSE << <<Lit("worktree"), Lit("add"), Lit("-b"), branchName, worktreePath, remoteBranch>>,
                <<Lit("-C"), worktreePath, Lit("config"), ConfigKey(branchName, "remote"), remote.Name>>,
                <<Lit("-C"), worktreePath, Lit("config"), ConfigKey(branchName, "merge"),
                  <<"refs/heads/">> \o pr.HeadRef>> >>
  IN IF BranchName(pr.HeadRef) # "" THEN [err |-> "invalid head ref", cmds |-> <<>>]
     ELSE IF BranchName(branchName) # "" THEN [err |-> "invalid branch name", cmds |-> <<>>]
     ELSE [err |-> "", cmds |-> <<fetch>> \o rest]

\* cmdsForExistingRemote that sets the remote of a new branch but not its
\* merge ref
cmdsForExistingRemoteNoMerge(st, remote, pr, opts, worktreePath, branchName) ==
  LET remoteBranch == remote.Name \o <<"/">> \o pr.HeadRef
      refSpec == IF opts.Detach THEN <<"+refs/heads/">> \o pr.HeadRef
                 ELSE <<"+refs/heads/">> \o pr.HeadRef \o <<":refs/remotes/">> \o remoteBranch
      fetch == <<Lit("fetch"), remote.Name, refSpec, Lit("--no-tags")>>
      tracking == <<"refs/remotes/">> \o remoteBranch
      rest ==
        IF opts.Detach
          THEN << <<Lit("worktree"), Lit("add"), Lit("--detach"), worktreePath, Lit("FETCH_HEAD")>> >>
        ELSE IF BranchExists(st, branchName) THEN
          IF opts.Force
            THEN << <<Lit("worktree"), Lit("add"), Lit("--force"), worktreePath, branchName>>,
                    <<Lit("-C"), worktreePath, Lit("reset"), Lit("--hard"), tracking>> >>
            ELSE << <<Lit("worktree"), Lit("add"), worktreePath, branchName>>,
                    <<Lit("-C"), worktreePath, Lit("merge"), Lit("--ff-only"), tracking>> >>
        ELSE << <<Lit("worktree"), Lit("add"), Lit("-b"), branchName, worktreePath, remoteBranch>>,
                <<Lit("-C"), worktreePath, Lit("config"), ConfigKey(branchName, "remote"), remote.Name>> >>
  IN IF BranchName(pr.HeadRef) # "" THEN [err |-> "invalid head ref", cmds |-> <<>>]
     ELSE IF BranchName(branchName) # "" THEN [err |-> "invalid branch name", cmds |-> <<>>]
     ELSE [err |-> "", cmds |-> <<fetch>> \o rest]

\* cmdsForExistingRemote that writes the tracking configuration of a new
\* branch before it adds the worktree
cmdsForExistingRemoteConfigFirst(st, remote, pr, opts, worktreePath, branchName) ==
  LET remoteBranch == remote.Name \o <<"/">> \o pr.HeadRef
      refSpec == IF opts.Detach THEN <<"+refs/heads/">> \o pr.HeadRef
                 ELSE <<"+refs/heads/">> \o pr.HeadRef \o <<":refs/remotes/">> \o remoteBranch
      fetch == <<Lit("fetch"), remote.Name, refSpec, Lit("--no-tags")>>
      tracking == <<"refs/remotes/">> \o remoteBranch
      rest ==
        IF opts.Detach
          THEN << <<Lit("worktree"), Lit("add"), Lit("--detach"), worktreePath, Lit("FETCH_HEAD")>> >>
        ELSE IF BranchExists(st, branchName) THEN
          IF opts.Force
            THEN << <<Lit("worktree"), Lit("add"), Lit("--force"), worktreePath, branchName>>,
                    <<Lit("-C"), worktreePath, Lit("reset"), Lit("--hard"), tracking>> >>
            ELSE << <<Lit("worktree"), Lit("add"), worktreePath, branchName>>,
                    <<Lit("-C"), worktreePath, Lit("merge"), Lit("--ff-only"), tracking>> >>
        ELSE << <<Lit("-C"), worktreePath, Lit("config"), ConfigKey(branchName, "remote"), remote.Name>>,
                <<Lit("-C"), worktreePath, Lit("config"), ConfigKey(branchName, "merge"),
                  <<"refs/heads/">> \o pr.HeadRef>>,
                <<Lit("worktree"), Lit("add"), Lit("-b"), branchName, worktreePath, remoteBranch>> >>
  IN IF BranchName(pr.HeadRef) # "" THEN [err |-> "invalid head ref", cmds |-> <<>>]
     ELSE IF BranchName(branchName) # "" THEN [err |-> "invalid branch name", cmds |-> <<>>]
     ELSE [err |-> "", cmds |-> <<fetch>> \o rest]

cmdsForExistingRemote(st, remote, pr, opts, worktreePath, branchName) ==
  LET remoteBranch == remote.Name \o <<"/">> \o pr.HeadRef
      refSpec == IF opts.Detach THEN <<"+refs/heads/">> \o pr.HeadRef
                 ELSE <<"+refs/heads/">> \o pr.HeadRef \o <<":refs/remotes/">> \o remoteBranch
      fetch == <<Lit("fetch"), remote.Name, refSpec, Lit("--no-tags")>>
      tracking == <<"refs/remotes/">> \o remoteBranch
      rest ==
        IF opts.Detach
          THEN << <<Lit("worktree"), Lit("add"), Lit("--detach"), worktreePath, Lit("FETCH_HEAD")>> >>
        ELSE IF BranchExists(st, branchName) THEN
          IF opts.Force
            THEN << <<Lit("worktree"), Lit("add"), Lit("--force"), worktreePath, branchName>>,
                    <<Lit("-C"), worktreePath, Lit("reset"), Lit("--hard"), tracking>> >>
            ELSE << <<Lit("worktree"), Lit("add"), worktreePath, branchName>>,
                    <<Lit("-C"), worktreePath, Lit("merge"), Lit("--ff-only"), tracking>> >>
        ELSE << <<Lit("worktree"), Lit("add"), Lit("-b"), branchName, worktreePath, remoteBranch>>,
                <<Lit("-C"), worktreePath, Lit("config"), ConfigKey(branchName, "remote"), remote.Name>>,
                <<Lit("-C"), worktreePath, Lit("config"), ConfigKey(branchName, "merge"),
                  <<"refs/heads/">> \o pr.HeadRef>> >>
  IN IF BranchName(pr.HeadRef) # "" THEN [err |-> "invalid head ref", cmds |-> <<>>]
     ELSE IF BranchName(branchName) # "" THEN [err |-> "invalid branch name", cmds |-> <<>>]
     ELSE [err |-> "", cmds |-> <<fetch>> \o rest]

PushRemoteURL(pr) ==
  Https \o <<":", "/", "/">> \o GitHubHost \o <<"/">> \o pr.HeadOwner \o <<"/">> \o pr.HeadRepoName

\* cmdsForMissingRemote that leaves the merge ref at refs/pull/<number>/head
\* when it sets a pushRemote
cmdsForMissingRemoteMergesPullRef(pr, baseRemote, opts, worktreePath, branchName) ==
  LET ref == <<"refs/pull/">> \o Itoa(pr.Number) \o <<"/head">>
      fetchCmd == <<Lit("fetch"), baseRemote.Name, ref \o <<":">> \o branchName, Lit("--no-tags")>>
                  \o (IF opts.Force THEN <<Lit("--force")>> ELSE <<>>)
      add == <<Lit("worktree"), Lit("add"), worktreePath, branchName>>
      push == pr.MaintainerCanModify /\ pr.HeadRepoName # <<>>
      pushRemote == PushRemoteURL(pr)
      mergeRef == ref
      pushCmds == IF push
                  THEN << <<Lit("-C"), worktreePath, Lit("config"),
                            ConfigKey(branchName, "pushRemote"), pushRemote>> >>
                  ELSE <<>>
  IN IF PRNumber(pr.Number) # "" THEN [err |-> "invalid PR number", cmds |-> <<>>]
     ELSE IF BranchName(branchName) # "" THEN [err |-> "invalid branch name", cmds |-> <<>>]
     ELSE IF BranchName(pr.HeadRef) # "" THEN [err |-> "invalid head ref", cmds |-> <<>>]
     ELSE IF opts.Detach
       THEN [err |-> "",
             cmds |-> << <<Lit("fetch"), baseRemote.Name, ref, Lit("--no-tags")>>,
                         <<Lit("worktree"), Lit("add"), Lit("--detach"), worktreePath, Lit("FETCH_HEAD")>> >>]
     ELSE IF push /\ RepoName(pr.HeadRepoName) # "" THEN [err |-> "invalid head repo name", cmds |-> <<>>]
     ELSE IF push /\ RepoName(pr.HeadOwner) # "" THEN [err |-> "invalid head repo owner", cmds |-> <<>>]
     ELSE IF push /\ URL(pushRemote) # "" THEN [err |-> "invalid push remote URL", cmds |-> <<>>]
     ELSE [err |-> "",
           cmds |-> <<fetchCmd, add>> \o pushCmds \o
                    << <<Lit("-C"), worktreePath, Lit("config"), ConfigKey(branchName, "remote"), baseRemote.Name>>,
                       <<Lit("-C"), worktreePath, Lit("config"), ConfigKey(branchName, "merge"), mergeRef>> >>]

cmdsForMissingRemote(pr, baseRemote, opts, worktreePath, branchName) ==
  LET ref == <<"refs/pull/">> \o Itoa(pr.Number) \o <<"/head">>
      fetchCmd == <<Lit("fetch"), baseRemote.Name, ref \o <<":">> \o branchName, Lit("--no-tags")>>
                  \o (IF opts.Force THEN <<Lit("--force")>> ELSE <<>>)
      add == <<Lit("worktree"), Lit("add"), worktreePath, branchName>>
      push == pr.MaintainerCanModify /\ pr.HeadRepoName # <<>>
      pushRemote == PushRemoteURL(pr)
      mergeRef == IF push THEN <<"refs/heads/">> \o pr.HeadRef ELSE ref
      pushCmds == IF push
                  THEN << <<Lit("-C"), worktreePath, Lit("config"),
                            ConfigKey(branchName, "pushRemote"), pushRemote>> >>
                  ELSE <<>>
  IN IF PRNumber(pr.Number) # "" THEN [err |-> "invalid PR number", cmds |-> <<>>]
     ELSE IF BranchName(branchName) # "" THEN [err |-> "invalid branch name", cmds |-> <<>>]
     ELSE IF BranchName(pr.HeadRef) # "" THEN [err |-> "invalid head ref", cmds |-> <<>>]
     ELSE IF opts.Detach
       THEN [err |-> "",
             cmds |-> << <<Lit("fetch"), baseRemote.Name, ref, Lit("--no-tags")>>,
                         <<Lit("worktree"), Lit("add"), Lit("--detach"), worktreePath, Lit("FETCH_HEAD")>> >>]
     ELSE IF push /\ RepoName(pr.HeadRepoName) # "" THEN [err |-> "invalid head repo name", cmds |-> <<>>]
     ELSE IF push /\ RepoName(pr.HeadOwner) # "" THEN [err |-> "invalid head repo owner", cmds |-> <<>>]
     ELSE IF push /\ URL(pushRemote) # "" THEN [err |-> "invalid push remote URL", cmds |-> <<>>]
     ELSE [err |-> "",
           cmds |-> <<fetchCmd, add>> \o pushCmds \o
                    << <<Lit("-C"), worktreePath, Lit("config"), ConfigKey(branchName, "remote"), baseRemote.Name>>,
                       <<Lit("-C"), worktreePath, Lit("config"), ConfigKey(branchName, "merge"), mergeRef>> >>]

\* storePRMetadata: [err, cfg].  fail = 1 or 2: the first or the second
\* SetConfig fails for a reason outside the model.
storePRMetadata(st, worktreePath, pr, fail) ==
  LET branchName == pr.HeadRef
      sanitizedTitle == SanitizeForGitConfig(pr.Title)
      title(w2) ==
        IF w2.err THEN [err |-> "store: failed to set PR title config", cfg |-> w2.cfg]
        ELSE [err |-> "", cfg |-> w2.cfg]
      number(w1) ==
        IF w1.err THEN [err |-> "store: failed to set PR number config", cfg |-> w1.cfg]
        ELSE title(SetConfig([st EXCEPT !.cfg = w1.cfg], worktreePath, branchName,
                             "gh-worktree-pr-title", sanitizedTitle, fail = 2))
  IN IF BranchName(pr.HeadRef) # "" THEN [err |-> "store: invalid branch name", cfg |-> st.cfg]
     ELSE IF PRNumber(pr.Number) # "" THEN [err |-> "store: invalid PR number", cfg |-> st.cfg]
     ELSE number(SetConfig(st, worktreePath, branchName, "gh-worktree-pr-number",
                           Itoa(pr.Number), fail = 1))

\* What fails for a reason outside the model during one Create: command
\* number cmd of the batch (network, diverged history), or configuration
\* write number store of storePRMetadata (locked configuration); 0 for none.
NoFail == [cmd |-> 0, store |-> 0]
Fails ==
  {[cmd |-> i, store |-> 0] : i \in 0..7} \cup {[cmd |-> 0, store |-> j] : j \in 1..2}

\* Creator.Create: [err, batch, ran, st, base, head, hit].  batch is the
\* command queue handed to ExecuteCommands (empty when Create returns before
\* that), ran the number of its commands that were started, base and head
\* the remotes it resolved, hit whether the failure asked for by fail took
\* place.
Create(st, remotes, worktreePath, pr, opts, fail) ==
  LET isCrossRepo == pr.HeadOwner # RepoOwner
      branchName == IF opts.BranchName # <<>> THEN opts.BranchName ELSE pr.HeadRef
      submodules ==
        IF opts.RecurseSubmodules
        THEN << <<Lit("submodule"), Lit("sync"), Lit("--recursive")>>,
                <<Lit("submodule"), Lit("update"), Lit("--init"), Lit("--recursive")>> >>
        ELSE <<>>
      based(baseRemote) ==
        LET resolved(headRemote) ==
              LET res(err, batch, ran, after, hit) ==
                    [err |-> err, batch |-> batch, ran |-> ran, st |-> after,
                     base |-> baseRemote, head |-> headRemote, hit |-> hit]
                  stored(cmdQueue, x, m) ==
                    res(m.err, cmdQueue, x.ran, [x.st EXCEPT !.cfg = m.cfg],
                        \/ fail.store = 1 /\ m.err = "store: failed to set PR number config"
                        \/ fail.store = 2 /\ m.err = "store: failed to set PR title config")
                  executed(cmdQueue, x) ==
                    IF x.err # "" THEN res(x.err, cmdQueue, x.ran, x.st, x.ran = fail.cmd)
                    ELSE stored(cmdQueue, x, storePRMetadata(x.st, worktreePath, pr, fail.store))
                  queued(cmdQueue) == executed(cmdQueue, ExecuteCommands(cmdQueue, st, fail.cmd))
                  synthesized(r) ==
                    IF r.err # "" THEN res(r.err, <<>>, 0, st, FALSE)
                    ELSE queued(r.cmds \o submodules)
              IN synthesized(IF headRemote # Nil
                             THEN cmdsForExistingRemote(st, headRemote, pr, opts, worktreePath, branchName)
                             ELSE cmdsForMissingRemote(pr, baseRemote, opts, worktreePath, branchName))
        IN IF baseRemote = Nil
           THEN [err |-> "no suitable remote found", batch |-> <<>>, ran |-> 0, st |-> st,
                 base |-> Nil, head |-> Nil, hit |-> FALSE]
           ELSE resolved(IF isCrossRepo THEN findHeadRemote(remotes, pr) ELSE baseRemote)
  IN based(findBaseRemote(remotes))

\* ---------------------------------------------------------- internal/github
\* strconv.Atoi: [err, value]
Atoi(s) ==
  LET signed == s # <<>> /\ Head(s) \in {"+", "-"}
      negative == signed /\ Head(s) = "-"
      body == IF signed THEN Tail(s) ELSE s
  IN IF body = <<>> \/ (\E i \in 1..Len(body) : body[i] \notin Digits) \/ ~FitsInt64(negative, body)
     THEN [err |-> TRUE, value |-> 0]
     ELSE [err |-> FALSE,
           value |-> IF negative THEN 0 - DigitsVal(body, 0) ELSE DigitsVal(body, 0)]

PullSep == <<"/", "p", "u", "l", "l", "/">>

\* index of the first occurrence of sep in s, 0 when absent
IndexOfSeq(s, sep) ==
  IF Contains(s, sep)
  THEN CHOOSE i \in 1..(Len(s) - Len(sep) + 1) :
         /\ SubSeq(s, i, i + Len(sep) - 1) = sep
         /\ \A j \in 1..(i - 1) : SubSeq(s, j, j + Len(sep) - 1) # sep
  ELSE 0

\* len(strings.Split(s, sep))
RECURSIVE SplitLen(_, _)
SplitLen(s, sep) ==
  IF IndexOfSeq(s, sep) = 0 THEN 1
  ELSE 1 + SplitLen(SubSeq(s, IndexOfSeq(s, sep) + Len(sep), Len(s)), sep)

\* ParsePRNumber that splits a pull request URL without validating it
ParsePRNumberUnvalidated(selector) ==
  LET number(a, bad) ==
        IF a.err THEN [err |-> bad, value |-> 0]
        ELSE IF PRNumber(a.value) # "" THEN [err |-> PRNumber(a.value), value |-> 0]
        ELSE [err |-> "", value |-> a.value]
  IN IF Contains(selector, PullSep) THEN
       IF SplitLen(selector, PullSep) # 2 THEN [err |-> "invalid PR URL format", value |-> 0]
       ELSE number(Atoi(TrimSpace(SubSeq(selector, IndexOfSeq(selector, PullSep) + Len(PullSep),
                                         Len(selector)))),
                   "invalid PR number in URL")
     ELSE number(Atoi(TrimSpace(selector)), "invalid PR number format")

\* ParsePRNumber(selector): [err, value], err "" for nil
ParsePRNumber(selector) ==
  LET number(a, bad) ==
        IF a.err THEN [err |-> bad, value |-> 0]
        ELSE IF PRNumber(a.value) # "" THEN [err |-> PRNumber(a.value), value |-> 0]
        ELSE [err |-> "", value |-> a.value]
  IN IF Contains(selector, PullSep) THEN
       IF URL(selector) # "" THEN [err |-> "invalid URL", value |-> 0]
       ELSE IF SplitLen(selector, PullSep) # 2 THEN [err |-> "invalid PR URL format", value |-> 0]
       ELSE number(Atoi(TrimSpace(SubSeq(selector, IndexOfSeq(selector, PullSep) + Len(PullSep),
                                         Len(selector)))),
                   "invalid PR number in URL")
     ELSE number(Atoi(TrimSpace(selector)), "invalid PR number format")

\* ----------------------------------------------- internal/worktree promote
TypeKey == "gh-worktree-type"
NumberKey == "gh-worktree-pr-number"
TitleKey == "gh-worktree-pr-title"

\* PromoteToPR that writes the number and the title but not the type
PromoteToPRWithoutType(st, branchName, prNumber, prTitle, fail) ==
  LET title(w3) ==
        IF w3.err THEN [err |-> "failed to set PR title", cfg |-> w3.cfg]
        ELSE [err |-> "", cfg |-> w3.cfg]
      number(w2) ==
        IF w2.err THEN [err |-> "failed to set PR number", cfg |-> w2.cfg]
        ELSE title(SetConfig([st EXCEPT !.cfg = w2.cfg], GetRoot, branchName, TitleKey,
                             prTitle, fail = 3))
  IN number(SetConfig(st, GetRoot, branchName, NumberKey, Itoa(prNumber), fail = 2))

\* PromoteToPR that undoes its writes when one of them fails
PromoteToPRAtomic(st, branchName, prNumber, prTitle, fail) ==
  LET title(w3) ==
        IF w3.err THEN [err |-> "failed to set PR title", cfg |-> st.cfg]
        ELSE [err |-> "", cfg |-> w3.cfg]
      number(w2) ==
        IF w2.err THEN [err |-> "failed to set PR number", cfg |-> st.cfg]
        ELSE title(SetConfig([st EXCEPT !.cfg = w2.cfg], GetRoot, branchName, TitleKey,
                             prTitle, fail = 3))
      type(w1) ==
        IF w1.err THEN [err |-> "failed to set worktree type", cfg |-> st.cfg]
        ELSE number(SetConfig([st EXCEPT !.cfg = w1.cfg], GetRoot, branchName, NumberKey,
                              Itoa(prNumber), fail = 2))
  IN type(SetConfig(st, GetRoot, branchName, TypeKey, Lit("pr"), fail = 1))

\* PromoteToPR: [err, cfg]; fail = 1, 2 or 3: that SetConfig call fails for
\* a reason outside the model
PromoteToPR(st, branchName, prNumber, prTitle, fail) ==
  LET title(w3) ==
        IF w3.err THEN [err |-> "failed to set PR title", cfg |-> w3.cfg]
        ELSE [err |-> "", cfg |-> w3.cfg]
      number(w2) ==
        IF w2.err THEN [err |-> "failed to set PR number", cfg |-> w2.cfg]
        ELSE title(SetConfig([st EXCEPT !.cfg = w2.cfg], GetRoot, branchName, TitleKey,
                             prTitle, fail = 3))
      type(w1) ==
        IF w1.err THEN [err |-> "failed to set worktree type", cfg |-> w1.cfg]
        ELSE number(SetConfig([st EXCEPT !.cfg = w1.cfg], GetRoot, branchName, NumberKey,
                              Itoa(prNumber), fail = 2))
  IN type(SetConfig(st, GetRoot, branchName, TypeKey, Lit("pr"), fail = 1))

\* GetWorktreeType that looks for the PR number before the type
GetWorktreeTypeNumberFirst(st, branchName) ==
  LET worktreeType == GetConfig(st, GetRoot, branchName, TypeKey)
      prNumber == GetConfig(st, GetRoot, branchName, NumberKey)
  IN IF ~prNumber.err /\ prNumber.value # <<>> THEN Lit("pr")
     ELSE IF worktreeType.err THEN <<>>
     ELSE TrimSpace(worktreeType.value)

\* GetWorktreeType: "pr", "branch" or "" (the empty string) if not set
GetWorktreeType(st, branchName) ==
  LET worktreeType == GetConfig(st, GetRoot, branchName, TypeKey)
      prNumber == GetConfig(st, GetRoot, branchName, NumberKey)
  IN IF worktreeType.err
     THEN (IF ~prNumber.err /\ prNumber.value # <<>> THEN Lit("pr") ELSE <<>>)
     ELSE TrimSpace(worktreeType.value)

\* SetWorktreeType: [err, cfg]
SetWorktreeType(st, branchName, worktreeType, envFail) ==
  SetConfig(st, GetRoot, branchName, TypeKey, worktreeType, envFail)

\* ---------------------------------------------- internal/worktree registry
\* List: every worktree of the repository, the main one included
List(st) == {[Path |-> w.Path, Branch |-> w.Branch, PRNumber |-> 0, Title |-> <<>>] : w \in st.wts}

GetPRTitle(st, worktreePath, branchName) ==
  IF branchName = <<>> THEN <<>>
  ELSE GetConfig(st, worktreePath, branchName, TitleKey).value

PRPrefix(repoName) == repoName \o <<"-", "p", "r">>

\* the number a base name of the form <repo>-pr<number> carries: [ok, value]
PRByName(baseName, repoName) ==
  IF HasPrefix(baseName, PRPrefix(repoName)) /\ Len(baseName) > Len(PRPrefix(repoName))
  THEN LET sc == Sscanf(SubSeq(baseName, Len(PRPrefix(repoName)) + 1, Len(baseName)))
       IN [ok |-> sc.n = 1, value |-> sc.value]
  ELSE [ok |-> FALSE, value |-> 0]

InParentDirOf(gitRoot, path) == EvalSymlinks(Dir(path)) = EvalSymlinks(Dir(gitRoot))
InParentDir(path) == InParentDirOf(GetRoot, path)

\* ListPRWorktrees that classifies by the persisted type alone and takes
\* the number from the persisted metadata
ListPRWorktreesByMetadata(st, repoName) ==
  LET isPRByMetadata(wt) == GetWorktreeType(st, wt.Branch) = Lit("pr")
      stored(wt) == GetConfig(st, GetRoot, wt.Branch, NumberKey)
      number(wt) ==
        IF ~stored(wt).err /\ stored(wt).value # <<>> /\ ~Atoi(stored(wt).value).err
          THEN Atoi(stored(wt).value).value
        ELSE 0
  IN {[wt EXCEPT !.PRNumber = number(wt), !.Title = GetPRTitle(st, wt.Path, wt.Branch)] :
        wt \in {w \in List(st) : /\ w.Path # GetRoot
                                 /\ InParentDir(w.Path)
                                 /\ isPRByMetadata(w)}}

\* ListPRWorktrees with the result of its call of git.GetRoot as gitRoot
ListPRWorktreesIn(gitRoot, st, repoName) ==
  LET isPRByName(wt) == PRByName(Base(wt.Path), repoName).ok
      isPRByMetadata(wt) == GetWorktreeType(st, wt.Branch) = Lit("pr")
      byName(wt) == IF isPRByName(wt) THEN PRByName(Base(wt.Path), repoName).value ELSE 0
      stored(wt) == GetConfig(st, Join(EvalSymlinks(Dir(gitRoot)), Base(gitRoot)),
                              wt.Branch, NumberKey)
      number(wt) ==
        IF byName(wt) # 0 THEN byName(wt)
        ELSE IF ~stored(wt).err /\ stored(wt).value # <<>> /\ ~Atoi(stored(wt).value).err
          THEN Atoi(stored(wt).value).value
        ELSE 0
  IN {[wt EXCEPT !.PRNumber = number(wt), !.Title = GetPRTitle(st, wt.Path, wt.Branch)] :
        wt \in {w \in List(st) : /\ w.Path # gitRoot
                                 /\ InParentDirOf(gitRoot, w.Path)
                                 /\ (isPRByName(w) \/ isPRByMetadata(w))}}

ListPRWorktrees(st, repoName) == ListPRWorktreesIn(GetRoot, st, repoName)

\* ListBranchWorktrees with the result of its call of git.GetRoot as gitRoot
ListBranchWorktreesIn(gitRoot, st, repoName) ==
  {wt \in List(st) :
     /\ wt.Path # gitRoot
     /\ ~PRByName(Base(wt.Path), repoName).ok
     /\ HasPrefix(Base(wt.Path), repoName \o <<"-">>)
     /\ InParentDirOf(gitRoot, wt.Path)
     /\ GetWorktreeType(st, wt.Branch) \in {Lit("branch"), <<>>}}

ListBranchWorktrees(st, repoName) == ListBranchWorktreesIn(GetRoot, st, repoName)

ListAllWorktreesIn(gitRoot, st, repoName) ==
  [prWorktrees |-> ListPRWorktreesIn(gitRoot, st, repoName),
   branchWorktrees |-> ListBranchWorktreesIn(gitRoot, st, repoName)]

ListAllWorktrees(st, repoName) == ListAllWorktreesIn(GetRoot, st, repoName)

\* Remove(worktreePath, force): git worktree remove; envFail: git refuses
\* (uncommitted changes without --force, locked worktree): [err, st]
Remove(st, worktreePath, envFail) ==
  IF envFail \/ ~PathExists(st, worktreePath) \/ worktreePath = GetRoot
  THEN [err |-> TRUE, st |-> st]
  ELSE [err |-> FALSE, st |-> [st EXCEPT !.wts = {w \in @ : w.Path # worktreePath}]]

\* DeleteBranch(branchName): git branch -D, which also drops the section
\* branch.<branchName> of the configuration; git refuses for a missing
\* branch and for one that is checked out in a worktree: [err, st]
DeleteBranch(st, branchName, envFail) ==
  IF envFail \/ branchName \notin st.brs \/ CheckedOut(st, branchName)
  THEN [err |-> TRUE, st |-> st]
  ELSE [err |-> FALSE,
        st |-> [st EXCEPT !.brs = @ \ {branchName}, !.cfg = {e \in @ : e.branch # branchName}]]

\* ------------------------------------------------------------ environment
GitHubURL(owner, repo) ==
  Https \o <<":", "/", "/">> \o GitHubHost \o <<"/">> \o owner \o <<"/">> \o repo \o <<".", "g", "i", "t">>

ForkOwner == <<"k">>

RemoteOf(name, owner) == [Name |-> Lit(name), URL |-> GitHubURL(owner, MainRepoName)]

\* what `git remote -v` can list, in its order
RemoteSetups ==
  { <<>>,
    <<RemoteOf("origin", RepoOwner)>>,
    <<RemoteOf("origin", ForkOwner), RemoteOf("upstream", RepoOwner)>>,
    <<RemoteOf("upstream", RepoOwner), RemoteOf("origin", ForkOwner)>>,
    <<RemoteOf("mine", RepoOwner), RemoteOf("fork", ForkOwner)>> }

FewRemoteSetups ==
  { <<RemoteOf("origin", RepoOwner)>>,
    <<RemoteOf("origin", ForkOwner), RemoteOf("upstream", RepoOwner)>> }

\* local branches that exist before the tool is first used
LocalBranchSetups == { {MainBranch}, {MainBranch, <<"f">>} }

\* The pull requests the GitHub API serves for this repository: At is the
\* number a descriptor is served under, the other fields are the decoded
\* response (Number is 0 when the response carries no number).
PR(at, number, title, ref, repo, owner, mcm) ==
  [At |-> at, Number |-> number, Title |-> title, HeadRef |-> ref,
   HeadRepoName |-> repo, HeadOwner |-> owner, MaintainerCanModify |-> mcm]

PullRequests ==
  { PR(1, 1, <<"a", "$">>, <<"f">>, MainRepoName, RepoOwner, FALSE),
    PR(2, 2, <<"b">>, <<"g">>, MainRepoName, ForkOwner, TRUE),
    PR(3, 0, <<"c">>, <<"h">>, MainRepoName, RepoOwner, FALSE),
    PR(4, 4, <<"d">>, <<"-", "x">>, MainRepoName, RepoOwner, FALSE),
    PR(5, 5, <<"e">>, <<"g">>, <<".", ".">>, <<"z">>, TRUE),
    PR(6, 6, <<"f">>, <<"g">>, <<>>, <<>>, FALSE),
    PR(8, 8, <<"g">>, <<"g">>, MainRepoName, <<"z">>, FALSE),
    PR(9, 9, <<"h">>, <<"g">>, <<>>, <<"z">>, TRUE) }

NoPR == PR(0, 0, <<>>, <<>>, <<>>, <<>>, FALSE)

HasPRAt(n) == \E p \in PullRequests : p.At = n
PRAt(n) == CHOOSE p \in PullRequests : p.At = n

\* GET repos/<owner>/<repo>/pulls?head=<owner>:<branch>&state=open
OpenPRsFor(branchName) == {p \in PullRequests : p.HeadOwner = RepoOwner /\ p.HeadRef = branchName}

\* what the user can type
Selectors == {Itoa(n) : n \in 0..9}
\* a branch name that reads as pr<digits> with more digits than an int holds
LongPRName == <<"p", "r">> \o [i \in 1..20 |-> "9"]
BranchArgs == { <<"f">>, MainBranch, <<"p", "r", "1">>, <<"-", "x">>, LongPRName }
LocalNames == { <<>>, <<"b">>, <<"-", "x">> }

Options ==
  [RecurseSubmodules : BOOLEAN, Force : BOOLEAN, Detach : BOOLEAN,
   BranchName : LocalNames, ShellMode : BOOLEAN]
NoOptions ==
  [RecurseSubmodules |-> FALSE, Force |-> FALSE, Detach |-> FALSE,
   BranchName |-> <<>>, ShellMode |-> FALSE]

\* filepath.Rel(cwd, path) for a working directory that is a worktree root
Rel(cwd, path) ==
  IF cwd = path THEN <<".">>
  ELSE IF Dir(cwd) = Dir(path) THEN <<"..", "/">> \o Base(path)
  ELSE path

\* ------------------------------------------------------------------ state
VARIABLES
  remotes,     \* the configured remotes, as git remote -v lists them
  worktrees,   \* the worktrees of the repository: [Path, Branch]
  branches,    \* the local branches
  config,      \* the local configuration: [branch, key, value]
  last,        \* the last invocation: its arguments, locals and result
  ops          \* invocations so far

vars == <<remotes, worktrees, branches, config, last, ops>>

Repo == [wts |-> worktrees, brs |-> branches, cfg |-> config]

NoCall ==
  [op |-> "none", err |-> "", pr |-> NoPR, opts |-> NoOptions, number |-> 0,
   path |-> <<>>, branch |-> <<>>, batch |-> <<>>, ran |-> 0, created |-> FALSE,
   base |-> Nil, head |-> Nil, out |-> <<>>, warn |-> <<>>]

Init ==
  /\ remotes \in FewRemoteSetups
  /\ worktrees = {[Path |-> GetRoot, Branch |-> MainBranch]}
  /\ branches = {MainBranch}
  /\ config = {}
  /\ last = NoCall
  /\ ops = 0

SetRepo(st) ==
  /\ worktrees' = st.wts
  /\ branches' = st.brs
  /\ config' = st.cfg

Count == ops' = ops + 1

\* ---------------------------------------------------------------- main.go
Return(call) == last' = call

\* checkoutRun(opts, selector): gh worktree pr checkout <number|url>
checkoutRun(opts, selector, fail) ==
  LET repoName == Base(GetRoot)
      call == [NoCall EXCEPT !.op = "checkoutRun", !.opts = opts]
  IN /\ Count
     /\ UNCHANGED remotes
     /\ \E parsed \in {ParsePRNumber(selector)} :
          IF parsed.err # ""
            THEN /\ fail = NoFail
                 /\ Return([call EXCEPT !.err = "failed to parse PR number"]) /\ SetRepo(Repo)
          ELSE IF ~HasPRAt(parsed.value)
            THEN /\ fail = NoFail
                 /\ Return([call EXCEPT !.err = "failed to get PR details", !.number = parsed.value])
                 /\ SetRepo(Repo)
          ELSE \E pr \in {PRAt(parsed.value)}, worktreePath \in {GeneratePath(repoName, parsed.value)} :
            LET prNumber == parsed.value
                known == [call EXCEPT !.number = prNumber, !.pr = pr, !.path = worktreePath]
            IN IF RepoName(repoName) # ""
                 THEN /\ fail = NoFail
                      /\ Return([known EXCEPT !.err = "invalid repository name"]) /\ SetRepo(Repo)
               ELSE IF PRNumber(prNumber) # ""
                 THEN /\ fail = NoFail
                      /\ Return([known EXCEPT !.err = "invalid PR number"]) /\ SetRepo(Repo)
               ELSE IF PathExists(Repo, worktreePath)
                 THEN /\ fail = NoFail
                      /\ SetRepo(Repo)
                      /\ IF opts.ShellMode
                           THEN Return([known EXCEPT !.out = <<Rel(GetRoot, worktreePath)>>])
                           ELSE Return([known EXCEPT !.err = "worktree already exists"])
               ELSE \E c \in {Create(Repo, remotes, worktreePath, pr, opts, fail)} :
                      /\ fail = NoFail \/ c.hit
                      /\ SetRepo(c.st)
                      /\ Return([known EXCEPT
                           !.created = TRUE, !.err = c.err, !.batch = c.batch, !.ran = c.ran,
                           !.base = c.base, !.head = c.head,
                           !.branch = IF opts.BranchName # <<>> THEN opts.BranchName ELSE pr.HeadRef,
                           !.out = BatchStdout(c.batch, Finished(c)) \o
                                   (IF c.err # "" THEN <<>>
                                    ELSE IF opts.ShellMode THEN <<Rel(GetRoot, worktreePath)>>
                                    ELSE << Lit("Created worktree for #") \o Itoa(prNumber)
                                            \o Lit(" at ") \o worktreePath >>
                                         \o (IF pr.Title # <<>> THEN << Lit("Title: ") \o pr.Title >>
                                             ELSE <<>>))])

\* checkoutBranchWorktree(branchName, opts): gh worktree pr checkout --create
\* fail = 1: git worktree add fails, fail = 2: SetWorktreeType fails
checkoutBranchWorktree(branchName, opts, fail) ==
  LET repoName == Base(GetRoot)
      worktreePath == GeneratePathForBranch(repoName, branchName)
      cmd == IF BranchExists(Repo, branchName)
             THEN << <<Lit("worktree"), Lit("add"), worktreePath, branchName>> >>
             ELSE << <<Lit("worktree"), Lit("add"), Lit("-b"), branchName, worktreePath>> >>
      call == [NoCall EXCEPT !.op = "checkoutBranchWorktree", !.opts = opts, !.branch = branchName]
  IN /\ Count
     /\ UNCHANGED remotes
     /\ IF BranchName(branchName) # ""
          THEN Return([call EXCEPT !.err = "invalid branch name"]) /\ SetRepo(Repo)
        ELSE IF RepoName(repoName) # ""
          THEN Return([call EXCEPT !.err = "invalid repository name"]) /\ SetRepo(Repo)
        ELSE \E known \in {[call EXCEPT !.path = worktreePath]} :
          IF PathExists(Repo, known.path)
            THEN /\ SetRepo(Repo)
                 /\ IF opts.ShellMode
                      THEN Return([known EXCEPT !.out = <<Rel(GetRoot, known.path)>>])
                      ELSE Return([known EXCEPT !.err = "worktree already exists"])
          ELSE \E x \in {ExecuteCommands(cmd, Repo, fail)} :
            IF x.err # ""
              THEN /\ SetRepo(x.st)
                   /\ Return([known EXCEPT !.err = "failed to create worktree",
                                           !.batch = cmd, !.ran = x.ran,
                                           !.out = BatchStdout(cmd, Finished(x))])
            ELSE \E t \in {SetWorktreeType(x.st, branchName, Lit("branch"), fail = 2)} :
              IF t.err
                THEN /\ SetRepo(x.st)
                     /\ Return([known EXCEPT !.err = "failed to set worktree type",
                                             !.batch = cmd, !.ran = x.ran,
                                             !.out = BatchStdout(cmd, x.ran)])
              ELSE /\ SetRepo([x.st EXCEPT !.cfg = t.cfg])
                   /\ Return([known EXCEPT !.batch = cmd, !.ran = x.ran,
                        !.out = BatchStdout(cmd, x.ran) \o
                                (IF opts.ShellMode THEN <<Rel(GetRoot, known.path)>>
                                 ELSE << Lit("Created worktree for branch '") \o branchName
                                         \o Lit("' at ") \o known.path >>)])

\* promoteRun(branchName, prNumber); prNumber = 0: look the pull request up
\* by branch.  fail = 1, 2, 3: that configuration write of PromoteToPR fails.
promoteRun(call, branchName, prNumber, fail) ==
  LET prs == OpenPRsFor(branchName)
      known == [call EXCEPT !.branch = branchName]
  IN IF BranchName(branchName) # ""
       THEN Return([known EXCEPT !.err = "invalid branch name"]) /\ SetRepo(Repo)
     ELSE IF GetWorktreeType(Repo, branchName) = Lit("pr")
       THEN Return([known EXCEPT !.err = "already a PR worktree"]) /\ SetRepo(Repo)
     ELSE IF prNumber = 0 /\ prs = {}
       THEN Return([known EXCEPT !.err = "no open PR found for branch"]) /\ SetRepo(Repo)
     ELSE IF prNumber = 0 /\ Cardinality(prs) > 1
       THEN Return([known EXCEPT !.err = "multiple PRs found for branch"]) /\ SetRepo(Repo)
     ELSE \E found \in {IF prNumber = 0 THEN (CHOOSE p \in prs : TRUE).Number ELSE prNumber} :
       IF ~HasPRAt(found)
         THEN Return([known EXCEPT !.err = "failed to get PR details", !.number = found])
              /\ SetRepo(Repo)
       ELSE \E pr \in {PRAt(found)} :
            \E p \in {PromoteToPR(Repo, branchName, found, pr.Title, fail)} :
              /\ SetRepo([Repo EXCEPT !.cfg = p.cfg])
              /\ Return([known EXCEPT !.number = found, !.pr = pr,
                   !.err = IF p.err = "" THEN "" ELSE "failed to promote worktree",
                   !.out = IF p.err # "" THEN <<>>
                           ELSE << Lit("Promoted worktree for branch '") \o branchName
                                   \o Lit("' to PR #") \o Itoa(found) >>
                                \o (IF pr.Title # <<>> THEN << Lit("Title: ") \o pr.Title >>
                                    ELSE <<>>)])

\* promoteCmd.RunE: gh worktree pr promote [<branch>] [<pr-number>], run in
\* the worktree cwd
promoteCmd(args, cwd, fail) ==
  LET call == [NoCall EXCEPT !.op = "promote", !.path = cwd]
  IN /\ Count
     /\ UNCHANGED remotes
     /\ IF Len(args) = 0
          THEN \E currentBranch \in {GetBranchName(Repo, cwd)} :
                 IF currentBranch = <<>> \/ currentBranch = Lit("HEAD")
                   THEN Return([call EXCEPT !.err = "could not determine current branch"])
                        /\ SetRepo(Repo)
                   ELSE promoteRun(call, currentBranch, 0, fail)
        ELSE IF Len(args) = 1
          THEN promoteRun(call, args[1], 0, fail)
        ELSE \E parsed \in {ParsePRNumber(args[2])} :
               IF parsed.err # ""
                 THEN Return([call EXCEPT !.err = "invalid PR number", !.branch = args[1]])
                      /\ SetRepo(Repo)
                 ELSE promoteRun(call, args[1], parsed.value, fail)

\* RemoveAndDelete that deletes the branch before it removes the worktree
RemoveAndDeleteBranchFirst(call, worktreePath, branchName, fail) ==
  \E d \in {DeleteBranch([Repo EXCEPT !.wts = {w \in @ : w.Path # worktreePath}],
                         branchName, FALSE)} :
  \E r \in {Remove(Repo, worktreePath, fail = 1)} :
    IF r.err
      THEN Return([call EXCEPT !.err = "failed to remove worktree"])
           /\ SetRepo([Repo EXCEPT !.brs = d.st.brs])
    ELSE /\ SetRepo(d.st)
         /\ Return([call EXCEPT !.ran = 2, !.out = << Lit("Removed worktree at ") \o worktreePath >>])

\* the tail shared by removeRun and removeRunInteractive: remove the
\* worktree, then delete its branch; a failure of the second is a warning
\* on standard error.  fail = 1: git worktree remove fails, fail = 2:
\* git branch -D fails.  ran counts the two git commands that were started.
RemoveAndDelete(call, worktreePath, branchName, fail) ==
  LET named == branchName # <<>> /\ branchName # Lit("HEAD")
      deletes == named /\ BranchName(branchName) = ""
  IN \E r \in {Remove(Repo, worktreePath, fail = 1)} :
       IF r.err
         THEN Return([call EXCEPT !.err = "failed to remove worktree"]) /\ SetRepo(Repo)
       ELSE \E d \in {IF deletes THEN DeleteBranch(r.st, branchName, fail = 2)
                      ELSE [err |-> FALSE, st |-> r.st]} :
            /\ SetRepo(d.st)
            /\ Return([call EXCEPT !.ran = IF deletes THEN 2 ELSE 1,
                                   !.warn = IF named /\ ~deletes
                                              THEN <<Lit("Warning: invalid branch name")>>
                                            ELSE IF d.err
                                              THEN <<Lit("Warning: failed to delete branch")>>
                                            ELSE <<>>,
                                   !.out = << Lit("Removed worktree at ") \o worktreePath >>])

\* removeRun(selector, force): gh worktree pr remove <number|url|branch>
removeRun(selector, force, fail) ==
  LET repoName == Base(GetRoot)
      call == [NoCall EXCEPT !.op = "removeRun", !.opts = [NoOptions EXCEPT !.Force = force]]
  IN /\ Count
     /\ UNCHANGED remotes
     /\ \E parsed \in {ParsePRNumber(selector)} :
        \E worktreePath \in {IF parsed.err # "" THEN GeneratePathForBranch(repoName, selector)
                             ELSE GeneratePath(repoName, parsed.value)} :
        \E branchName \in {GetBranchName(Repo, worktreePath)} :
          LET isBranchWorktree == parsed.err # ""
              numbered == [call EXCEPT !.number = parsed.value]
              known == [numbered EXCEPT !.path = worktreePath, !.branch = branchName]
          IN IF RepoName(repoName) # ""
               THEN Return([numbered EXCEPT !.err = "invalid repository name"]) /\ SetRepo(Repo)
             ELSE IF isBranchWorktree /\ BranchName(selector) # ""
               THEN Return([numbered EXCEPT !.err = "invalid identifier"]) /\ SetRepo(Repo)
             ELSE IF ~PathExists(Repo, worktreePath)
               THEN Return([known EXCEPT !.err = "worktree does not exist"]) /\ SetRepo(Repo)
             ELSE RemoveAndDelete(known, worktreePath, branchName, fail)

\* removeRunInteractive(force): gh worktree pr remove, the worktree picked
\* from the menu of PR worktrees and branch worktrees; cancel = TRUE: the
\* prompt is dismissed
removeRunInteractive(force, selected, cancel, fail) ==
  LET call == [NoCall EXCEPT !.op = "removeRunInteractive",
                             !.opts = [NoOptions EXCEPT !.Force = force]]
  IN /\ Count
     /\ UNCHANGED remotes
     /\ \E lists \in {ListAllWorktrees(Repo, Base(GetRoot))} :
          IF lists.prWorktrees = {} /\ lists.branchWorktrees = {}
            THEN Return([call EXCEPT !.out = <<Lit("No worktrees found.")>>]) /\ SetRepo(Repo)
          ELSE IF cancel
            THEN Return([call EXCEPT !.out = <<Lit("Cancelled.")>>]) /\ SetRepo(Repo)
          ELSE /\ selected \in lists.prWorktrees \cup lists.branchWorktrees
               /\ RemoveAndDelete([call EXCEPT !.path = selected.Path, !.branch = selected.Branch,
                                               !.number = selected.PRNumber],
                                  selected.Path, selected.Branch, fail)

\* listRun(showAll): gh worktree pr list [--all], run in the main worktree
\* that git.GetRoot names gitRoot.  out = <<the rows printed as PR
\* worktrees, the rows printed as branch worktrees>>
listRun(showAll, gitRoot) ==
  LET call == [NoCall EXCEPT !.op = "listRun", !.path = gitRoot]
      repoName == Base(gitRoot)
      cwd == gitRoot
      prRow(wt) == Lit("  #") \o Itoa(wt.PRNumber) \o <<TAB>> \o wt.Branch \o <<TAB>>
                   \o (IF wt.Title = <<>> THEN Lit("(no title)") ELSE wt.Title)
                   \o <<TAB>> \o Rel(cwd, wt.Path)
      branchRow(wt) == Lit("  ") \o wt.Branch \o <<TAB>> \o Lit("(local development)")
                       \o <<TAB>> \o Rel(cwd, wt.Path)
  IN /\ Count
     /\ UNCHANGED remotes
     /\ SetRepo(Repo)
     /\ IF showAll
          THEN \E lists \in {ListAllWorktreesIn(gitRoot, Repo, repoName)} :
                 IF lists.prWorktrees = {} /\ lists.branchWorktrees = {}
                   THEN Return([call EXCEPT !.out = << {Lit("No worktrees found.")}, {} >>])
                 ELSE Return([call EXCEPT !.out = << {prRow(wt) : wt \in lists.prWorktrees},
                                                     {branchRow(wt) : wt \in lists.branchWorktrees} >>])
        ELSE \E prWorktrees \in {ListPRWorktreesIn(gitRoot, Repo, repoName)} :
               IF prWorktrees = {}
                 THEN Return([call EXCEPT !.out = << {Lit("No PR worktrees found.")}, {} >>])
               ELSE Return([call EXCEPT !.out = << {prRow(wt) : wt \in prWorktrees}, {} >>])

\* ---------------------------------------------------------- specification

\* Spec: the commands of the tool in any order, each with a few inputs.
FewOptions ==
  { [NoOptions EXCEPT !.ShellMode = shell] : shell \in BOOLEAN } \cup
  { [NoOptions EXCEPT !.Detach = TRUE], [NoOptions EXCEPT !.BranchName = <<"b">>] }
FewSelectors == {Itoa(1), Itoa(2), Itoa(7)}

\* fails tried for a checkout: none, the second command of the batch
\* (worktree add), the first configuration write after the batch
FewFails == {NoFail, [cmd |-> 2, store |-> 0], [cmd |-> 0, store |-> 1]}

CheckoutPR ==
  /\ ops < MaxOps
  /\ \E opts \in FewOptions, selector \in FewSelectors, fail \in FewFails :
       checkoutRun(opts, selector, fail)

CheckoutBranch ==
  /\ ops < MaxOps
  /\ \E branchName \in BranchArgs, shell \in BOOLEAN, fail \in 0..2 :
       /\ shell => (branchName = <<"f">> /\ fail = 0)
       /\ checkoutBranchWorktree(branchName, [NoOptions EXCEPT !.ShellMode = shell], fail)

PromoteArgs ==
  { <<>>, << <<"f">> >>, <<MainBranch, Itoa(1)>>, << <<"p", "r", "1">>, Itoa(2) >>, << <<"f">>, Itoa(0) >> }

Promote ==
  /\ ops < MaxOps
  /\ \E args \in PromoteArgs, w \in worktrees, fail \in 0..3 :
       /\ args # <<>> => w.Path = GetRoot
       /\ promoteCmd(args, w.Path, fail)

RemoveBySelector ==
  /\ ops < MaxOps
  /\ \E selector \in {Itoa(1), <<"f">>, <<"p", "r", "1">>}, force \in BOOLEAN, fail \in 0..2 :
       removeRun(selector, force, fail)

RemoveFromMenu ==
  /\ ops < MaxOps
  /\ \E force \in BOOLEAN, cancel \in BOOLEAN, fail \in 0..2 :
       \E selected \in ListPRWorktrees(Repo, Base(GetRoot)) \cup ListBranchWorktrees(Repo, Base(GetRoot))
                       \cup {[Path |-> <<>>, Branch |-> <<>>, PRNumber |-> 0, Title |-> <<>>]} :
         removeRunInteractive(force, selected, cancel, fail)

Next ==
  \/ CheckoutPR
  \/ CheckoutBranch
  \/ Promote
  \/ RemoveBySelector
  \/ RemoveFromMenu

Spec == Init /\ [][Next]_vars

\* SpecCreate: Creator.Create as a function of the repository it finds and
\* of its arguments.  The repository is drawn from every remote setup and
\* branch setup, and one checkout is made with every combination of the
\* options, every pull request and every position of a failing call.
InitCreate ==
  /\ remotes \in RemoteSetups
  /\ worktrees = {[Path |-> GetRoot, Branch |-> MainBranch]}
  /\ branches \in LocalBranchSetups
  /\ config = {}
  /\ last = NoCall
  /\ ops = 0

CheckoutAny ==
  /\ last = NoCall
  /\ \E opts \in {o \in Options : ~o.ShellMode}, selector \in Selectors, fail \in Fails :
       checkoutRun(opts, selector, fail)

NextCreate == CheckoutAny

SpecCreate == InitCreate /\ [][NextCreate]_vars

\* SpecRemove: one removal in a repository that holds worktrees the tool
\* made and worktrees made with git itself: a PR worktree, a worktree with
\* a detached HEAD, a branch worktree, and a worktree whose branch name
\* validate.BranchName does not accept.
OddBranch == <<"x", "@">>
Siblings ==
  { [Path |-> GeneratePath(Base(GetRoot), 1), Branch |-> <<"f">>],
    [Path |-> GeneratePath(Base(GetRoot), 2), Branch |-> <<>>],
    [Path |-> GeneratePathForBranch(Base(GetRoot), <<"g">>), Branch |-> <<"g">>],
    [Path |-> GeneratePathForBranch(Base(GetRoot), <<"x">>), Branch |-> OddBranch] }

InitRemove ==
  /\ remotes \in FewRemoteSetups
  /\ \E made \in SUBSET Siblings :
       /\ worktrees = {[Path |-> GetRoot, Branch |-> MainBranch]} \cup made
       /\ branches = {MainBranch} \cup {w.Branch : w \in {m \in made : m.Branch # <<>>}}
       /\ config = {e \in {[branch |-> <<"f">>, key |-> NumberKey, value |-> Itoa(1)],
                           [branch |-> <<"f">>, key |-> TitleKey, value |-> <<"a">>],
                           [branch |-> <<"g">>, key |-> TypeKey, value |-> Lit("branch")]} :
                      \E w \in made : w.Branch = e.branch}
  /\ last = NoCall
  /\ ops = 0

RemoveAny ==
  /\ last = NoCall
  /\ \E selector \in {Itoa(1), Itoa(2), Itoa(7), <<"g">>, <<"x">>}, force \in BOOLEAN, fail \in 0..2 :
       removeRun(selector, force, fail)

RemoveAnyFromMenu ==
  /\ last = NoCall
  /\ \E force \in BOOLEAN, cancel \in BOOLEAN, fail \in 0..2 :
       \E selected \in ListPRWorktrees(Repo, Base(GetRoot)) \cup ListBranchWorktrees(Repo, Base(GetRoot))
                       \cup {[Path |-> <<>>, Branch |-> <<>>, PRNumber |-> 0, Title |-> <<>>]} :
         removeRunInteractive(force, selected, cancel, fail)

NextRemove ==
  \/ RemoveAny
  \/ RemoveAnyFromMenu

SpecRemove == InitRemove /\ [][NextRemove]_vars

\* SpecList: one listing of a repository that holds any of the sibling
\* worktrees and any persisted metadata for their branches and for the
\* branch of the main worktree, from either name of the main worktree.
PersistedMetadata ==
  { [branch |-> b, key |-> TypeKey, value |-> t] :
      b \in {MainBranch, <<"f">>, <<"g">>}, t \in {Lit("pr"), Lit("branch")} } \cup
  { [branch |-> b, key |-> NumberKey, value |-> Itoa(1)] : b \in {MainBranch, <<"f">>, <<"g">>} }

InitList ==
  /\ remotes \in FewRemoteSetups
  /\ \E made \in SUBSET Siblings :
       /\ worktrees = {[Path |-> GetRoot, Branch |-> MainBranch]} \cup made
       /\ branches = {MainBranch} \cup {w.Branch : w \in {m \in made : m.Branch # <<>>}}
  /\ config \in {cfg \in SUBSET PersistedMetadata :
                   /\ \A e \in cfg : e.branch \in branches
                   /\ \A e1 \in cfg, e2 \in cfg :
                        (e1.branch = e2.branch /\ e1.key = e2.key) => e1 = e2}
  /\ last = NoCall
  /\ ops = 0

ListAny ==
  /\ last = NoCall
  /\ \E showAll \in BOOLEAN, gitRoot \in GetRootOutcomes : listRun(showAll, gitRoot)

NextList == ListAny

SpecList == InitList /\ [][NextList]_vars

\* SpecPaths: GeneratePath and GeneratePathForBranch as functions.  Init
\* draws two arguments, the action applies the function to both.
MaxNameLen == 3    \* symbols of a branch name given to GeneratePathForBranch

PathNames == UNION {[1..n -> {"a", "/", "-"}] : n \in 1..MaxNameLen}
PathNumbers == {1, 2, 12, 21, MaxPRNumber}

InitPaths ==
  /\ remotes = <<>>
  /\ worktrees = {[Path |-> GetRoot, Branch |-> MainBranch]}
  /\ branches = {MainBranch}
  /\ config = {}
  /\ ops = 0
  /\ last \in {[op |-> "numbers", args |-> <<x, y>>] : x \in PathNumbers, y \in PathNumbers}
         \cup {[op |-> "names", args |-> <<x, y>>] : x \in PathNames, y \in PathNames}

ApplyGeneratePath ==
  /\ last.op = "numbers"
  /\ last' = [op |-> "GeneratePath", args |-> last.args,
              paths |-> [i \in 1..2 |-> GeneratePath(Base(GetRoot), last.args[i])]]
  /\ UNCHANGED <<remotes, worktrees, branches, config, ops>>

ApplyGeneratePathForBranch ==
  /\ last.op = "names"
  /\ last' = [op |-> "GeneratePathForBranch", args |-> last.args,
              paths |-> [i \in 1..2 |-> GeneratePathForBranch(Base(GetRoot), last.args[i])]]
  /\ UNCHANGED <<remotes, worktrees, branches, config, ops>>

NextPaths ==
  \/ ApplyGeneratePath
  \/ ApplyGeneratePathForBranch

SpecPaths == InitPaths /\ [][NextPaths]_vars

\* ---------------------------------------------------------- internal/setup
\* The file .gh-worktree.yml of the main worktree: [state, Run].  state is
\* "absent" (os.Stat reports that it does not exist), "unreadable"
\* (os.ReadFile fails), "invalid" (yaml.Unmarshal fails) or "valid", with
\* the list setup.run in Run.
NoConfigFile == [state |-> "absent", Run |-> <<>>]

\* LoadConfig(mainWorktreePath): [err, Run]
LoadConfig(file) ==
  IF file.state = "absent" THEN [err |-> "", Run |-> <<>>]
  ELSE IF file.state = "unreadable" THEN [err |-> "failed to read config file", Run |-> <<>>]
  ELSE IF file.state = "invalid" THEN [err |-> "failed to parse config file", Run |-> <<>>]
  ELSE [err |-> "", Run |-> file.Run]

\* one command of the list, run by sh -c: the process that was started
Started(cmdStr, newWorktreePath, mainWorktreePath, failed) ==
  [cmd |-> cmdStr, Dir |-> newWorktreePath, GH_WORKTREE_MAIN_DIR |-> mainWorktreePath,
   failed |-> failed]

\* the loop of RunSetup from command i on: [runs, warnings, out].  failing
\* holds the positions of the commands that exit with a failure.
RECURSIVE RunFrom(_, _, _, _, _)
RunFrom(Run, i, newWorktreePath, mainWorktreePath, failing) ==
  IF i > Len(Run) THEN [runs |-> <<>>, warnings |-> <<>>, out |-> <<>>]
  ELSE LET rest(r) ==
             [runs |-> <<Started(Run[i], newWorktreePath, mainWorktreePath, i \in failing)>>
                       \o r.runs,
              warnings |-> (IF i \in failing THEN <<Lit("Command failed: ") \o Run[i]>> ELSE <<>>)
                           \o r.warnings,
              out |-> <<Lit("  ok ") \o Run[i]>>
                      \o (IF i \in failing THEN <<Lit("  warn Command failed: ") \o Run[i]>>
                          ELSE <<>>)
                      \o r.out]
       IN rest(RunFrom(Run, i + 1, newWorktreePath, mainWorktreePath, failing))

\* RunSetup that gives up at the first failing command
RunSetupStopsAtFailure(newWorktreePath, mainWorktreePath, file, failing) ==
  LET first == IF failing = {} THEN Len(file.Run) ELSE CHOOSE i \in failing : \A j \in failing : i <= j
      cut(conf) ==
        IF conf.err # "" THEN [err |-> "failed to load config", runs |-> <<>>, warnings |-> <<>>, out |-> <<>>]
        ELSE [err |-> "", warnings |-> <<>>, out |-> <<>>,
              runs |-> RunFrom(SubSeq(conf.Run, 1, first), 1, newWorktreePath,
                               mainWorktreePath, failing).runs]
  IN cut(LoadConfig(file))

\* RunSetup(newWorktreePath, mainWorktreePath): [err, runs, warnings, out]
RunSetup(newWorktreePath, mainWorktreePath, file, failing) ==
  LET done(r) ==
        [err |-> "", runs |-> r.runs, warnings |-> r.warnings,
         out |-> <<Lit("Running post-creation setup...")>> \o r.out
                 \o (IF Len(r.warnings) > 0 THEN <<Lit("  warn Setup completed with warnings")>>
                     ELSE <<Lit("  ok Setup completed")>>)]
      loaded(conf) ==
        IF conf.err # ""
          THEN [err |-> "failed to load config", runs |-> <<>>, warnings |-> <<>>, out |-> <<>>]
        ELSE IF Len(conf.Run) = 0
          THEN [err |-> "", runs |-> <<>>, warnings |-> <<>>, out |-> <<>>]
        ELSE done(RunFrom(conf.Run, 1, newWorktreePath, mainWorktreePath, failing))
  IN loaded(LoadConfig(file))

\* ShouldRunSetup(mainWorktreePath)
ShouldRunSetup(file) ==
  LET conf == LoadConfig(file)
  IN conf.err = "" /\ Len(conf.Run) > 0

\* SpecSetup: RunSetup as a function of the configuration file and of the
\* commands that fail.  Init draws both, the action runs the setup of a new
\* worktree.
MaxRun == 3        \* commands in setup.run

SetupCommands == {Lit("pnpm install"), Lit("false")}
ConfigFiles ==
  {NoConfigFile, [state |-> "unreadable", Run |-> <<>>], [state |-> "invalid", Run |-> <<>>]}
  \cup {[state |-> "valid", Run |-> r] : r \in UNION {[1..n -> SetupCommands] : n \in 0..MaxRun}}

InitSetup ==
  /\ remotes = <<>>
  /\ worktrees = {[Path |-> GetRoot, Branch |-> MainBranch],
                  [Path |-> GeneratePath(Base(GetRoot), 1), Branch |-> <<"f">>]}
  /\ branches = {MainBranch, <<"f">>}
  /\ config = {}
  /\ ops = 0
  /\ last \in {[op |-> "setup", file |-> f, failing |-> x] :
                 f \in ConfigFiles, x \in SUBSET (1..MaxRun)}
  /\ \A i \in last.failing : i <= Len(last.file.Run)

ApplyRunSetup ==
  /\ last.op = "setup"
  /\ last' = [op |-> "RunSetup", file |-> last.file, failing |-> last.failing,
              should |-> ShouldRunSetup(last.file),
              result |-> RunSetup(GeneratePath(Base(GetRoot), 1), GetRoot, last.file, last.failing)]
  /\ UNCHANGED <<remotes, worktrees, branches, config, ops>>

NextSetup == ApplyRunSetup

SpecSetup == InitSetup /\ [][NextSetup]_vars

\* ---------------------------------------------- validators as functions
\* SpecValidate: BranchName, RepoName, URL, ParsePRNumber and
\* SanitizeForGitConfig applied to one input string.  The inputs are every
\* string of at most MaxStrLen symbols of Alphabet, names at the length
\* limits, strings holding each shell-special character, and selectors put
\* together from a scheme, an authority and a path.
MaxStrLen == 3
Alphabet == {"a", "1", ".", "/", "-", "+", ";", SP, NL, NUL}
Rep(c, n) == [i \in 1..n |-> c]

ValidateInputs ==
  LET short == UNION {[1..n -> Alphabet] : n \in 0..MaxStrLen}
      long == {Rep("a", MaxBranchNameLen), Rep("a", MaxBranchNameLen + 1),
               Rep("a", MaxBranchNameLen - 1) \o <<"/">>,
               Rep("a", MaxBranchNameLen) \o <<";">>,
               Rep("a", MaxRepoNameLen), Rep("a", MaxRepoNameLen + 1),
               Rep("a", MaxRepoNameLen - 2) \o <<".", ".">>,
               Rep("a", MaxRepoNameLen - 1) \o <<".", ".">>,
               Rep("a", MaxRepoNameLen - 1) \o <<"/">>}
      marks == {ShellSpecial[i] : i \in 1..Len(ShellSpecial)} \cup {CR, TAB, NL, NUL}
      special == {<<"a", c, SP, c, "b">> : c \in marks} \cup {<<c, "a", c>> : c \in marks}
      schemes == {<<"h", "t", "t", "p", "s", ":", "/", "/">>,
                  <<"H", "T", "T", "P", "S", ":", "/", "/">>,
                  <<"h", "t", "t", "p", ":", "/", "/">>,
                  <<"f", "i", "l", "e", ":", "/", "/">>,
                  <<"j", "a", "v", "a", "s", "c", "r", "i", "p", "t", ":">>,
                  <<"h", "t", "t", "p", "s", ":">>,
                  <<>>}
      authorities == {<<"g", "i", "t", "h", "u", "b", ".", "c", "o", "m">>,
                      <<"u", ":", "p", "@", "g", "i", "t", "h", "u", "b", ".", "c", "o", "m">>,
                      <<"g", "i", "t", "h", "u", "b", ".", "c", "o", "m", "@", "e", ".", "c", "o">>,
                      <<"e", ".", "c", "o">>,
                      <<"g", "i", "t", "h", "u", "b", ".", "c", "o", "m", ".", "e", ".", "c", "o">>,
                      <<"g", "i", "t", "h", "u", "b", ".", "c", "o", "m", ":", "4", "4", "3">>,
                      <<>>}
      numerals == {<<"1">>,
                   <<"0">>,
                   <<"-", "1">>,
                   <<"+", "1", "2">>,
                   <<"1", "2", " ">>,
                   <<" ", "1", "2">>,
                   <<"0", "0", "7">>,
                   <<"1", "2", "3">>,
                   <<"9", "9", "9", "9", "9", "9">>,
                   <<"1", "0", "0", "0", "0", "0", "0">>,
                   <<"9", "9", "9", "9", "9", "9", "9">>,
                   <<"a", "b", "c">>,
                   <<"1", "/", "f", "i", "l", "e", "s">>,
                   <<"1", "?", "x">>,
                   <<"9", "9", "9", "9", "9", "9", "9", "9", "9", "9", "9", "9", "9", "9", "9", "9", "9", "9", "9", "9">>}
      tails == {<<>>,
                <<"/">>,
                <<"/", "o", "/", "r">>,
                <<"?", "q">>,
                <<"#", "f">>,
                <<"/", "p", "u", "l", "l", "/", "1", "/", "p", "u", "l", "l", "/", "2">>,
                <<"/", "o", "?", "/", "p", "u", "l", "l", "/", "7">>}
               \cup {<<"/", "o", "/", "r">> \o PullSep \o n : n \in numerals}
      selectors == {s \o a \o t : s \in schemes, a \in authorities, t \in tails}
      words == {<<"a", "b", "c">>,
                <<"1", "2", "3", ";", " ", "r", "m", " ", "-", "r", "f", " ", "/">>,
                <<"j", "a", "v", "a", "s", "c", "r", "i", "p", "t", ":", "a", "l", "e", "r", "t", "(", "1", ")">>,
                <<"f", "e", "a", "t", "u", "r", "e", "/", "x", "-", "1", ".", "0", "_", "b">>,
                <<"m", "y", "-", "r", "e", "p", "o", ".", "v", "2">>,
                <<"r", "e", "p", "o", "/", ".", ".", "/", "e", "v", "i", "l">>,
                <<"-", "x">>,
                <<"x", "/">>}
  IN short \cup long \cup special \cup selectors \cup numerals \cup words

InitValidate ==
  /\ remotes = <<>>
  /\ worktrees = {[Path |-> GetRoot, Branch |-> MainBranch]}
  /\ branches = {MainBranch}
  /\ config = {}
  /\ ops = 0
  /\ last \in {[op |-> "input", s |-> s, err |-> "", value |-> 0, out |-> <<>>] :
                 s \in ValidateInputs}

ApplyBranchName ==
  /\ last.op = "input"
  /\ last' = [last EXCEPT !.op = "BranchName", !.err = BranchName(last.s)]
  /\ UNCHANGED <<remotes, worktrees, branches, config, ops>>

ApplyRepoName ==
  /\ last.op = "input"
  /\ last' = [last EXCEPT !.op = "RepoName", !.err = RepoName(last.s)]
  /\ UNCHANGED <<remotes, worktrees, branches, config, ops>>

ApplyURL ==
  /\ last.op = "input"
  /\ last' = [last EXCEPT !.op = "URL", !.err = URL(last.s)]
  /\ UNCHANGED <<remotes, worktrees, branches, config, ops>>

ApplyParsePRNumber ==
  /\ last.op = "input"
  /\ \E r \in {ParsePRNumber(last.s)} :
       last' = [last EXCEPT !.op = "ParsePRNumber", !.err = r.err, !.value = r.value]
  /\ UNCHANGED <<remotes, worktrees, branches, config, ops>>

ApplySanitizeForGitConfig ==
  /\ last.op = "input"
  /\ last' = [last EXCEPT !.op = "SanitizeForGitConfig", !.out = SanitizeForGitConfig(last.s)]
  /\ UNCHANGED <<remotes, worktrees, branches, config, ops>>

NextValidate ==
  \/ ApplyBranchName
  \/ ApplyRepoName
  \/ ApplyURL
  \/ ApplyParsePRNumber
  \/ ApplySanitizeForGitConfig

SpecValidate == InitValidate /\ [][NextValidate]_vars

\* ----------------------------------------------------------------- claims
\* the invocation was a PR checkout that reached Creator.Create
Created(call) == call.op = "checkoutRun" /\ call.created

\* the errors Create returns for an input that fails a validation
ValidationErrors ==
  {"invalid head ref", "invalid branch name", "invalid PR number", "invalid head repo name",
   "invalid head repo owner", "invalid push remote URL",
   "store: invalid branch name", "store: invalid PR number"}

\* C1: when Create returns because a name, number or URL validation failed,
\* no command of the batch has been executed and the worktrees, the branches
\* and the configuration are what they were before the call.
C1_FailFast ==
  [][(Created(last') /\ last'.err \in ValidationErrors)
       => (last'.ran = 0 /\ UNCHANGED <<worktrees, branches, config>>)]_vars

\* C2: a Create with Detach set that succeeds writes no configuration key.
C2_DetachWritesNoKey ==
  [][(Created(last') /\ last'.opts.Detach /\ last'.err = "") => config' = config]_vars

\* the characters SanitizeForGitConfig is to keep out of a stored value
Unsafe == {ShellSpecial[i] : i \in 1..Len(ShellSpecial)} \cup {NL, CR, TAB, NUL}

\* C3: every stored gh-worktree-pr-title value is the sanitized form of a
\* title of the pull-request source and holds no unsafe character.
C3_TitleSanitized ==
  \A e \in config :
    e.key = TitleKey =>
      /\ \A i \in 1..Len(e.value) : e.value[i] \notin Unsafe
      /\ \E p \in PullRequests : e.value = SanitizeForGitConfig(p.Title)

HasRemote(name) == \E i \in 1..Len(remotes) : remotes[i].Name = Lit(name)

\* C4: the base remote of a Create is the remote named upstream if there is
\* one, whatever the order; else the one named origin; else the first one;
\* without any remote Create fails, hands no batch to ExecuteCommands and
\* leaves the repository as it was.
C4_BaseRemote ==
  [][Created(last') =>
       IF HasRemote("upstream") THEN last'.base.Name = Lit("upstream")
       ELSE IF HasRemote("origin") THEN last'.base.Name = Lit("origin")
       ELSE IF remotes # <<>> THEN last'.base = remotes[1]
       ELSE /\ last'.err = "no suitable remote found"
            /\ last'.batch = <<>> /\ last'.ran = 0
            /\ UNCHANGED <<worktrees, branches, config>>]_vars

\* upstream is listed after origin and is the base remote
C4_UpstreamListedSecond ==
  /\ Created(last)
  /\ Len(remotes) = 2 /\ remotes[1].Name = Lit("origin") /\ remotes[2].Name = Lit("upstream")
  /\ last.base = remotes[2]
  /\ last.err = ""

HasWord(cmd, w) == \E i \in 1..Len(cmd) : cmd[i] = Lit(w)
Destructive(batch) ==
  \E i \in 1..Len(batch) :
    HasWord(batch[i], "--force") \/ (HasWord(batch[i], "reset") /\ HasWord(batch[i], "--hard"))
Tracking(call) == <<"refs/remotes/">> \o call.head.Name \o <<"/">> \o call.pr.HeadRef
FastForwardCmds(call) ==
  << <<Lit("worktree"), Lit("add"), call.path, call.branch>>,
     <<Lit("-C"), call.path, Lit("merge"), Lit("--ff-only"), Tracking(call)>> >>
ResetCmds(call) ==
  << <<Lit("worktree"), Lit("add"), Lit("--force"), call.path, call.branch>>,
     <<Lit("-C"), call.path, Lit("reset"), Lit("--hard"), Tracking(call)>> >>
\* the batch is a fetch followed by cmds (and by nothing but submodule commands)
FetchThen(batch, cmds) ==
  /\ Len(batch) >= 1 + Len(cmds)
  /\ IsFetch(batch[1])
  /\ SubSeq(batch, 2, 1 + Len(cmds)) = cmds
  /\ \A i \in (2 + Len(cmds))..Len(batch) : IsSubmodule(batch[i])

\* C5 as stated: with Force unset a batch holds no --force and no
\* reset --hard; with a head remote and an existing local branch the batch
\* is fetch, worktree add <path> <branch>, merge --ff-only with Force unset
\* and fetch, worktree add --force, reset --hard with Force set.
C5_AsStated ==
  [][(Created(last') /\ last'.batch # <<>>) =>
       /\ ~last'.opts.Force => ~Destructive(last'.batch)
       /\ (last'.head # Nil /\ last'.branch \in branches) =>
            FetchThen(last'.batch,
                      IF last'.opts.Force THEN ResetCmds(last') ELSE FastForwardCmds(last'))]_vars

\* C5: the same with Detach unset in the second part; with Detach set the
\* batch is fetch, worktree add --detach <path> FETCH_HEAD.
C5_NonDestructive ==
  [][(Created(last') /\ last'.batch # <<>>) =>
       /\ ~last'.opts.Force => ~Destructive(last'.batch)
       /\ (last'.head # Nil /\ last'.branch \in branches /\ ~last'.opts.Detach) =>
            FetchThen(last'.batch,
                      IF last'.opts.Force THEN ResetCmds(last') ELSE FastForwardCmds(last'))
       /\ (last'.head # Nil /\ last'.opts.Detach) =>
            FetchThen(last'.batch,
                      << <<Lit("worktree"), Lit("add"), Lit("--detach"), last'.path,
                           Lit("FETCH_HEAD")>> >>)]_vars

\* an existing branch was checked out and fast-forwarded, Force unset
C5_FastForwarded ==
  /\ Created(last) /\ last.err = ""
  /\ ~last.opts.Force /\ ~last.opts.Detach /\ last.head # Nil
  /\ FetchThen(last.batch, FastForwardCmds(last))
  /\ PathExists(Repo, last.path)

\* the repository after every command of cmds, in order
RECURSIVE RunAll(_, _)
RunAll(cmds, st) ==
  IF cmds = <<>> THEN st ELSE RunAll(Tail(cmds), GitApply(Head(cmds), st).st)

Metadata(cfg) == {e \in cfg : e.key \in {NumberKey, TitleKey}}

\* C6: when a command of the batch fails, Create returns that error, the
\* repository is what the commands before the failing one made of it, in
\* list order, and no PR number or title has been stored; a batch without
\* a failing command is run to its end; an empty batch succeeds.
C6_StopsAtFirstFailure ==
  [][/\ (Created(last') /\ last'.err = "failed to execute git") =>
          /\ last'.ran \in 1..Len(last'.batch)
          /\ [wts |-> worktrees', brs |-> branches', cfg |-> config']
               = RunAll(SubSeq(last'.batch, 1, last'.ran - 1), Repo)
          /\ Metadata(config') = Metadata(config)
     /\ (Created(last') /\ last'.batch # <<>> /\ last'.err # "failed to execute git") =>
          last'.ran = Len(last'.batch)
     /\ ExecuteCommands(<<>>, Repo, 0) = [err |-> "", ran |-> 0, st |-> Repo]]_vars

\* the third command failed: the worktree of the second is kept, the
\* commands after the third were not run
C6_WorktreeKept ==
  /\ Created(last) /\ last.err = "failed to execute git"
  /\ last.ran = 3 /\ Len(last.batch) > 3
  /\ PathExists(Repo, last.path)
  /\ config = {}

\* the invocation was a promote that reached promoteRun
Promoting(call) ==
  call.op = "promote" /\ call.err \notin {"could not determine current branch", "invalid PR number"}

\* C7: promoteRun on a branch of type pr returns an error and changes no
\* key; on a branch of type branch or without a type, when it succeeds, the
\* three keys hold pr, the number and the title, GetWorktreeType is pr, and
\* a promotion of the same branch that follows is rejected.
C7_Promotion ==
  [][Promoting(last') =>
       /\ GetWorktreeType(Repo, last'.branch) = Lit("pr") =>
            (last'.err # "" /\ config' = config)
       /\ (GetWorktreeType(Repo, last'.branch) \in {Lit("branch"), <<>>} /\ last'.err = "") =>
            /\ \A k \in {TypeKey, NumberKey, TitleKey} : HasConfig(config', last'.branch, k)
            /\ StoredValue(config', last'.branch, TypeKey) = Lit("pr")
            /\ StoredValue(config', last'.branch, NumberKey) = Itoa(last'.number)
            /\ StoredValue(config', last'.branch, TitleKey) = last'.pr.Title
            /\ GetWorktreeType([wts |-> worktrees', brs |-> branches', cfg |-> config'],
                               last'.branch) = Lit("pr")
       /\ (Promoting(last) /\ last.err = "" /\ last'.branch = last.branch) =>
            last'.err = "already a PR worktree"]_vars

\* a branch worktree was promoted
C7_Promoted ==
  /\ Promoting(last) /\ last.err = ""
  /\ \E e \in config : e.branch = last.branch /\ e.key = TypeKey /\ e.value = Lit("pr")
  /\ \E w \in worktrees : w.Branch = last.branch /\ w.Path # GetRoot

\* C8: the branch checked out in the main worktree has no gh-worktree-type
\* key.
C8_MainUntyped ==
  \A w \in worktrees : w.Path = GetRoot => ~HasConfig(config, w.Branch, TypeKey)

\* C9: GeneratePath gives distinct paths for distinct PR numbers and
\* GeneratePathForBranch gives distinct paths for distinct branch names
\* that validate.BranchName accepts.
C9_PathsUnique ==
  /\ last.op = "GeneratePath" =>
       (last.args[1] # last.args[2] => last.paths[1] # last.paths[2])
  /\ last.op = "GeneratePathForBranch" =>
       ((last.args[1] # last.args[2] /\ BranchName(last.args[1]) = "" /\ BranchName(last.args[2]) = "")
          => last.paths[1] # last.paths[2])

\* the digits of a base name <repo>-pr<digits>, empty for any other name
PRDigits(path) ==
  LET baseName == Base(path)
      prefix == Base(GetRoot) \o <<"-", "p", "r">>
      rest == SubSeq(baseName, Len(prefix) + 1, Len(baseName))
  IN IF HasPrefix(baseName, prefix) /\ \A i \in 1..Len(rest) : rest[i] \in Digits
     THEN rest ELSE <<>>

Sibling(w) == w.Path # GetRoot /\ Dir(w.Path) = Dir(GetRoot)
ListedAsPR(w) == \E l \in ListPRWorktrees(Repo, Base(GetRoot)) : l.Path = w.Path
ListedAsBranch(w) == \E l \in ListBranchWorktrees(Repo, Base(GetRoot)) : l.Path = w.Path
\* a base name <repo>-<name> whose <name> does not begin with pr
BranchNamed(w) ==
  /\ HasPrefix(Base(w.Path), Base(GetRoot) \o <<"-">>)
  /\ ~HasPrefix(Base(w.Path), Base(GetRoot) \o <<"-", "p", "r">>)

\* C10 as stated: a sibling worktree named <repo>-pr<digits> is listed by
\* ListPRWorktrees with the number the digits spell and not by
\* ListBranchWorktrees; one named <repo>-<name> whose type is branch or
\* not set is listed by ListBranchWorktrees and not by ListPRWorktrees.
C10_AsStated ==
  \A w \in worktrees :
    Sibling(w) =>
      /\ PRDigits(w.Path) # <<>> =>
           /\ ListedAsPR(w) /\ ~ListedAsBranch(w)
           /\ \A l \in ListPRWorktrees(Repo, Base(GetRoot)) :
                l.Path = w.Path => Itoa(l.PRNumber) = TrimZeros(PRDigits(w.Path))
      /\ (BranchNamed(w) /\ GetWorktreeType(Repo, w.Branch) \in {Lit("branch"), <<>>}) =>
           (ListedAsBranch(w) /\ ~ListedAsPR(w))

\* the digits spell a number from 1 to the largest int
PRNumeral(ds) == ds # <<>> /\ TrimZeros(ds) # <<"0">> /\ NumeralLeq(TrimZeros(ds), MaxInt64)

\* C10: the same for digits that spell a number from 1 to the largest
\* int.
C10_ClassifiedByName ==
  \A w \in worktrees :
    Sibling(w) =>
      /\ PRNumeral(PRDigits(w.Path)) =>
           /\ ListedAsPR(w) /\ ~ListedAsBranch(w)
           /\ \A l \in ListPRWorktrees(Repo, Base(GetRoot)) :
                l.Path = w.Path => l.PRNumber = DigitsVal(PRDigits(w.Path), 0)
      /\ (BranchNamed(w) /\ GetWorktreeType(Repo, w.Branch) \in {Lit("branch"), <<>>}) =>
           (ListedAsBranch(w) /\ ~ListedAsPR(w))

\* a worktree named <repo>-pr1 whose branch has the persisted type branch
\* is listed as the worktree of PR 1
C10_NameBeatsMetadata ==
  \E w \in worktrees :
    /\ Sibling(w) /\ PRDigits(w.Path) = <<"1">>
    /\ HasConfig(config, w.Branch, TypeKey)
    /\ StoredValue(config, w.Branch, TypeKey) = Lit("branch")
    /\ \E l \in ListPRWorktrees(Repo, Base(GetRoot)) : l.Path = w.Path /\ l.PRNumber = 1

\* a worktree that checkout --create made for the branch: its path is the
\* one GeneratePathForBranch gives and the persisted type is branch
CreatedForBranch(w, b) ==
  /\ w.Branch = b
  /\ w.Path = GeneratePathForBranch(Base(GetRoot), b)
  /\ HasConfig(config, b, TypeKey) /\ StoredValue(config, b, TypeKey) = Lit("branch")

\* C11: after a successful promotion of a branch whose worktree was made by
\* checkout --create, ListPRWorktrees returns that worktree with the
\* promoted number and the title, and ListBranchWorktrees does not return
\* it.
C11_PromotedIsListedAsPR ==
  [][(Promoting(last') /\ last'.err = "") =>
       \A w \in worktrees :
         CreatedForBranch(w, last'.branch) =>
           /\ \E l \in ListPRWorktrees([wts |-> worktrees', brs |-> branches', cfg |-> config'],
                                       Base(GetRoot)) :
                l.Path = w.Path /\ l.PRNumber = last'.number /\ l.Title = last'.pr.Title
           /\ \A l \in ListBranchWorktrees([wts |-> worktrees', brs |-> branches', cfg |-> config'],
                                           Base(GetRoot)) :
                l.Path # w.Path]_vars

\* the invocation was a checkout in shell mode
ShellCheckout(call) ==
  call.op \in {"checkoutRun", "checkoutBranchWorktree"} /\ call.opts.ShellMode

\* C12: in shell mode, what a checkout writes to standard output is nothing
\* or exactly the path of the target worktree.
C12_ShellOutputIsPath ==
  ShellCheckout(last) => (last.out = <<>> \/ last.out = <<Rel(GetRoot, last.path)>>)

\* C13: RunSetup runs every configured command once, in list order, in the
\* new worktree and with GH_WORKTREE_MAIN_DIR set to the main worktree; a
\* failing command gives one warning and RunSetup returns nil all the same;
\* without a file or with an empty list nothing runs; the only error is a
\* configuration that cannot be loaded.
C13_RunSetup ==
  last.op = "RunSetup" =>
    LET Run == last.file.Run
        r == last.result
    IN /\ (r.err # "") <=> (last.file.state \in {"unreadable", "invalid"})
       /\ r.err # "" => r.runs = <<>>
       /\ (last.file.state = "absent" \/ Run = <<>>) => (r.runs = <<>> /\ r.out = <<>>)
       /\ r.err = "" =>
            /\ Len(r.runs) = Len(Run)
            /\ \A i \in 1..Len(Run) :
                 /\ r.runs[i].cmd = Run[i]
                 /\ r.runs[i].Dir = GeneratePath(Base(GetRoot), 1)
                 /\ r.runs[i].GH_WORKTREE_MAIN_DIR = GetRoot
                 /\ r.runs[i].failed = (i \in last.failing)
            /\ Len(r.warnings) = Cardinality(last.failing)

\* three commands, the second failed and the third was run
C13_RanPastFailure ==
  /\ last.op = "RunSetup"
  /\ last.result.err = ""
  /\ Len(last.result.runs) = 3
  /\ last.result.runs[2].failed /\ ~last.result.runs[3].failed
  /\ Len(last.result.warnings) = 1

\* the invocation was a removal
Removing(call) == call.op \in {"removeRun", "removeRunInteractive"}

\* C14: a removal deletes a branch only after it removed the worktree; when
\* the worktree removal fails it returns an error and the repository is
\* unchanged; when the removal succeeded it reports success, with a warning
\* when the branch name is invalid or the deletion failed, and without any
\* attempt to delete for a detached worktree (branch empty or HEAD).
C14_RemovalOrder ==
  [][Removing(last') =>
       /\ branches' # branches =>
            (last'.err = "" /\ ~PathExists([wts |-> worktrees', brs |-> branches', cfg |-> config'],
                                           last'.path))
       /\ last'.err = "failed to remove worktree" => UNCHANGED <<worktrees, branches, config>>
       /\ last'.ran >= 1 =>
            /\ last'.err = ""
            /\ worktrees' = {w \in worktrees : w.Path # last'.path}
            /\ last'.branch \in {<<>>, Lit("HEAD")} =>
                 (last'.ran = 1 /\ last'.warn = <<>> /\ branches' = branches)
            /\ (last'.branch \notin {<<>>, Lit("HEAD")} /\ BranchName(last'.branch) # "") =>
                 (last'.ran = 1 /\ last'.warn # <<>> /\ branches' = branches)
            /\ (last'.branch \notin {<<>>, Lit("HEAD")} /\ BranchName(last'.branch) = "") =>
                 /\ last'.ran = 2
                 /\ IF last'.warn = <<>> THEN branches' = branches \ {last'.branch}
                    ELSE branches' = branches]_vars

\* the worktree was removed, the deletion of its branch failed, and the
\* removal reports success with a warning
C14_WarnedAndSucceeded ==
  /\ Removing(last) /\ last.err = "" /\ last.ran = 2
  /\ last.warn = <<Lit("Warning: failed to delete branch")>>
  /\ last.branch \in branches
  /\ ~PathExists(Repo, last.path)

\* a decimal numeral, and one that denotes a number of 1..MaxPRNumber
Decimal(s) == s # <<>> /\ \A i \in 1..Len(s) : s[i] \in Digits
InRange(s) == Decimal(s) /\ TrimZeros(s) # <<"0">> /\ Len(TrimZeros(s)) <= Len(Itoa(MaxPRNumber))

\* what strconv.Atoi(strings.TrimSpace(s)) reads as a number of
\* 1..MaxPRNumber: blanks around, an optional plus sign, a decimal numeral
Unsigned(s) == IF TrimSpace(s) # <<>> /\ Head(TrimSpace(s)) = "+" THEN Tail(TrimSpace(s))
               ELSE TrimSpace(s)
Lenient(s) == InRange(Unsigned(s))

\* the string is https://github.com, in either case of the scheme, followed
\* by nothing or by a path, a query or a fragment, with no control character
GitHubHttps(s) ==
  /\ Len(s) >= 18
  /\ \A i \in 1..5 : ToLower(s[i]) = Https[i]
  /\ SubSeq(s, 6, 8) = <<":", "/", "/">>
  /\ SubSeq(s, 9, 18) = GitHubHost
  /\ Len(s) > 18 => s[19] \in {"/", "?", "#"}
  /\ \A i \in 1..Len(s) : s[i] \notin {NUL, NL, CR, TAB}

\* the places where /pull/ starts, and the text after the first of them
Pulls(s) == {i \in 1..(Len(s) - 5) : SubSeq(s, i, i + 5) = PullSep}
AfterPull(s) == SubSeq(s, (CHOOSE i \in Pulls(s) : \A j \in Pulls(s) : i <= j) + 6, Len(s))
PullURL(s) == Cardinality(Pulls(s)) = 1 /\ GitHubHttps(s)

Parsed(call) == call.op = "ParsePRNumber"

\* C15 as stated: ParsePRNumber returns only numbers of 1..999999; a bare
\* decimal selector in range returns its number; a selector with /pull/
\* returns the number after it only when it is a valid URL with one /pull/
\* followed by a decimal numeral in range; every other selector returns an
\* error and 0.
C15_AsStated ==
  Parsed(last) =>
    /\ last.err = "" => last.value \in 1..MaxPRNumber
    /\ last.err # "" => last.value = 0
    /\ InRange(last.s) => (last.err = "" /\ Itoa(last.value) = TrimZeros(last.s))
    /\ (Pulls(last.s) # {} /\ last.err = "") =>
         (PullURL(last.s) /\ InRange(AfterPull(last.s))
          /\ Itoa(last.value) = TrimZeros(AfterPull(last.s)))
    /\ (~InRange(last.s) /\ ~(Pulls(last.s) # {} /\ PullURL(last.s) /\ InRange(AfterPull(last.s))))
         => last.err # ""

\* C15: the same with the numeral read as strconv.Atoi reads it after
\* strings.TrimSpace: blanks around it and a plus sign before it are accepted.
C15_ParsePRNumber ==
  Parsed(last) =>
    /\ last.err = "" => last.value \in 1..MaxPRNumber
    /\ last.err # "" => last.value = 0
    /\ InRange(last.s) => (last.err = "" /\ Itoa(last.value) = TrimZeros(last.s))
    /\ (Pulls(last.s) = {} /\ Lenient(last.s)) =>
         (last.err = "" /\ Itoa(last.value) = TrimZeros(Unsigned(last.s)))
    /\ (Pulls(last.s) # {} /\ last.err = "") =>
         (PullURL(last.s) /\ Lenient(AfterPull(last.s))
          /\ Itoa(last.value) = TrimZeros(Unsigned(AfterPull(last.s))))
    /\ (~Lenient(last.s) /\ ~(Pulls(last.s) # {} /\ PullURL(last.s) /\ Lenient(AfterPull(last.s))))
         => last.err # ""

\* a selector that is no bare numeral and no URL was read as a number
C15_LenientNumeral ==
  /\ Parsed(last) /\ last.err = "" /\ last.value = 12
  /\ ~Decimal(last.s) /\ Pulls(last.s) = {}

\* the characters of [A-Za-z0-9._-]
RepoChars == LowerLetters \cup UpperLetters \cup Digits \cup {".", "_", "-"}

\* C16: validate.BranchName accepts a string exactly when it is non-empty,
\* at most 255 characters long, made of characters of [A-Za-z0-9._/-] only,
\* does not start with - and does not end with /.
C16_BranchName ==
  last.op = "BranchName" =>
    (last.err = "" <=>
       /\ Len(last.s) \in 1..255
       /\ \A i \in 1..Len(last.s) : last.s[i] \in RepoChars \cup {"/"}
       /\ last.s[1] # "-"
       /\ last.s[Len(last.s)] # "/")

\* a name of exactly 255 characters was accepted
C16_LongestAccepted == last.op = "BranchName" /\ last.err = "" /\ Len(last.s) = 255

\* a name with .. in it
Traversal(s) == \E i \in 1..(Len(s) - 1) : s[i] = "." /\ s[i + 1] = "."

\* validate.RepoName accepts a string exactly when it is non-empty, at most
\* 100 characters long, made of characters of [A-Za-z0-9._-] only and
\* without ..
RepoNameAccepts ==
  last.op = "RepoName" =>
    (last.err = "" <=>
       /\ Len(last.s) \in 1..100
       /\ \A i \in 1..Len(last.s) : last.s[i] \in RepoChars
       /\ ~Traversal(last.s))

\* C17 as stated: RepoName accepts exactly those names, and every name
\* containing .. is reported as path traversal.
C17_AsStated ==
  /\ RepoNameAccepts
  /\ (last.op = "RepoName" /\ Traversal(last.s)) =>
       last.err = "repository name contains path traversal"

\* C17: RepoName accepts exactly those names; a name of at most 100
\* characters containing .. is reported as path traversal, whatever other
\* characters it holds, and a longer one as too long.
C17_RepoName ==
  /\ RepoNameAccepts
  /\ (last.op = "RepoName" /\ Traversal(last.s)) =>
       last.err = IF Len(last.s) <= 100 THEN "repository name contains path traversal"
                  ELSE "repository name too long"

\* a name with .. and with a character outside the set was reported as
\* path traversal
C17_TraversalReportedFirst ==
  /\ last.op = "RepoName" /\ Traversal(last.s)
  /\ \E i \in 1..Len(last.s) : last.s[i] \notin RepoChars
  /\ last.err = "repository name contains path traversal"

\* C18: validate.URL accepts a string only if it is https://github.com
\* (the scheme in either case, as url.Parse lower-cases it) followed by
\* nothing, a path, a query or a fragment: no other scheme, no user-info,
\* no other host, no port, and never the empty string.
C18_URL == (last.op = "URL" /\ last.err = "") => GitHubHttps(last.s)

\* the URL of a pull request was accepted
C18_PullRequestURLAccepted == last.op = "URL" /\ last.err = "" /\ Pulls(last.s) # {}

Sanitized(call) == call.op = "SanitizeForGitConfig"

\* C19: SanitizeForGitConfig is idempotent: sanitizing its result again
\* gives the same result.
C19_Idempotent == Sanitized(last) => SanitizeForGitConfig(last.out) = last.out

\* the sanitizer changed its input and left something
C19_InputChanged == Sanitized(last) /\ last.out # last.s /\ last.out # <<>>

\* the characters SanitizeForGitConfig removes, and those it replaces
Removed == {NUL, ";", "&", "|", BQ, "$", "(", ")", "<", ">", SQ, "\"", "\\"}
Blanked == {NL, CR, TAB}

\* the input, character by character: a removed one dropped, a newline, a
\* carriage return or a tab turned into one space, any other kept
Cleaned(s) ==
  LET kept == SelectSeq(s, LAMBDA c : c \notin Removed)
  IN [i \in 1..Len(kept) |-> IF kept[i] \in Blanked THEN SP ELSE kept[i]]

\* the result holds no removed and no replaced character and neither
\* starts nor ends with whitespace
Safe(out) ==
  /\ \A i \in 1..Len(out) : out[i] \notin Removed \cup Blanked
  /\ out # <<>> => (out[1] \notin Whitespace /\ out[Len(out)] \notin Whitespace)

\* C20 as stated: the result is safe, and it is the input with each
\* newline, carriage return and tab replaced by one space and every other
\* character that is not removed kept in order.
C20_AsStated == Sanitized(last) => (Safe(last.out) /\ last.out = Cleaned(last.s))

\* C20: the result is safe, and it is the input with each newline,
\* carriage return and tab replaced by one space and the other characters
\* kept in order, less the whitespace at its two ends.
C20_Sanitize == Sanitized(last) => (Safe(last.out) /\ last.out = TrimSpace(Cleaned(last.s)))

\* an input that starts with a newline, a carriage return or a tab: the
\* result is not empty and holds no space in its place
C20_LeadingBlankTrimmed ==
  /\ Sanitized(last) /\ last.s # <<>> /\ last.s[1] \in Blanked
  /\ last.out # <<>> /\ Len(last.out) < Len(Cleaned(last.s))

\* the commands of the batch that set branch.<branch>.<key>
Setting(call, key) ==
  {i \in 1..Len(call.batch) :
     IsConfig(call.batch[i]) /\ call.batch[i][4] = ConfigKey(call.branch, key)}

\* C21: with Detach set no command of the batch is a config command; with
\* Detach unset and a local branch that does not exist yet the batch holds
\* exactly one command that sets branch.<branch>.remote and exactly one
\* that sets branch.<branch>.merge, with and without a head remote.
C21_TrackingConfig ==
  [][(Created(last') /\ last'.batch # <<>>) =>
       /\ last'.opts.Detach => \A i \in 1..Len(last'.batch) : ~IsConfig(last'.batch[i])
       /\ (~last'.opts.Detach /\ last'.branch \notin branches) =>
            /\ Cardinality(Setting(last', "remote")) = 1
            /\ Cardinality(Setting(last', "merge")) = 1]_vars

\* a new branch was created from a head remote and tracks it
C21_TracksHeadRemote ==
  /\ Created(last) /\ last.err = "" /\ ~last.opts.Detach /\ last.head # Nil
  /\ HasWord(last.batch[2], "-b")
  /\ \E e \in config : e.branch = last.branch /\ e.key = "remote" /\ e.value = last.head.Name
  /\ \E e \in config : e.branch = last.branch /\ e.key = "merge"

\* refs/pull/<number>/head
PullRef(call) == <<"refs/pull/">> \o Itoa(call.pr.Number) \o <<"/head">>
\* the fork can be pushed to
Pushable(pr) == pr.MaintainerCanModify /\ pr.HeadRepoName # <<>>
SetCmd(call, key, value) ==
  <<Lit("-C"), call.path, Lit("config"), ConfigKey(call.branch, key), value>>

\* C22: without a head remote and without Detach the batch is: fetch of
\* refs/pull/<number>/head from the base remote into the local branch, with
\* --force exactly when Force is set; worktree add <path> <branch>; when the
\* pull request can be modified by maintainers and names a head repository,
\* branch.<branch>.pushRemote set to https://github.com/<owner>/<repo>;
\* branch.<branch>.remote set to the base remote; branch.<branch>.merge set
\* to refs/heads/<head ref> in that case and to refs/pull/<number>/head
\* otherwise.
C22_MissingRemoteBatch ==
  [][(Created(last') /\ last'.batch # <<>> /\ last'.head = Nil /\ ~last'.opts.Detach) =>
       FetchThen(last'.batch,
         << <<Lit("worktree"), Lit("add"), last'.path, last'.branch>> >>
         \o (IF Pushable(last'.pr)
               THEN << SetCmd(last', "pushRemote",
                              <<"h","t","t","p","s",":","/","/","g","i","t","h","u","b",".","c","o","m","/">>
                              \o last'.pr.HeadOwner \o <<"/">> \o last'.pr.HeadRepoName) >>
             ELSE <<>>)
         \o << SetCmd(last', "remote", last'.base.Name),
               SetCmd(last', "merge",
                      IF Pushable(last'.pr) THEN <<"refs/heads/">> \o last'.pr.HeadRef
                      ELSE PullRef(last')) >>)
       /\ last'.batch[1] =
            <<Lit("fetch"), last'.base.Name, PullRef(last') \o <<":">> \o last'.branch, Lit("--no-tags")>>
            \o (IF last'.opts.Force THEN <<Lit("--force")>> ELSE <<>>)]_vars

\* a pull request of a fork without a remote, open to maintainers: the
\* branch pushes to the fork and merges from its head ref
C22_PushesToFork ==
  /\ Created(last) /\ last.err = "" /\ last.head = Nil /\ ~last.opts.Detach
  /\ \E e \in config : e.branch = last.branch /\ e.key = "pushRemote"
  /\ \E e \in config : e.branch = last.branch /\ e.key = "merge"
                       /\ e.value = <<"refs/heads/">> \o last.pr.HeadRef

\* a pull request of a fork without a remote, closed to maintainers: the
\* branch merges from refs/pull/<number>/head and has no pushRemote
C22_MergesPullRef ==
  /\ Created(last) /\ last.err = "" /\ last.head = Nil /\ ~last.opts.Detach
  /\ ~\E e \in config : e.branch = last.branch /\ e.key = "pushRemote"
  /\ \E e \in config : e.branch = last.branch /\ e.key = "merge" /\ e.value = PullRef(last)

\* the repository after the step
RepoAfter == [wts |-> worktrees', brs |-> branches', cfg |-> config']

\* the type of a branch as the keys of a configuration give it
TypeByKeys(cfg, b) ==
  IF \E e \in cfg : e.branch = b /\ e.key = TypeKey
    THEN (CHOOSE e \in cfg : e.branch = b /\ e.key = TypeKey).value
  ELSE IF \E e \in cfg : e.branch = b /\ e.key = NumberKey /\ e.value # <<>>
    THEN Lit("pr")
  ELSE <<>>

\* checkout --create made a worktree and wrote its type
BranchCreated(call) == call.op = "checkoutBranchWorktree" /\ call.err = "" /\ call.ran >= 1

AfterWrites(cfg, b, n, t, k) ==
  LET w1 == IF k >= 1 THEN PutConfig(cfg, b, TypeKey, Lit("pr")) ELSE cfg
      w2 == IF k >= 2 THEN PutConfig(w1, b, NumberKey, Itoa(n)) ELSE w1
  IN IF k >= 3 THEN PutConfig(w2, b, TitleKey, t) ELSE w2

\* the promotion reached PromoteToPR
Wrote(call) == Promoting(call) /\ call.err \in {"", "failed to promote worktree"}

\* C24: PromoteToPR writes the type, then the number, then the title; when
\* the k-th write fails it returns an error and leaves the k - 1 writes
\* before it in place; a promotion that fails leaves the first 0, 1 or 2
\* writes and one that succeeds all three.
C24_NotAtomic ==
  [][Wrote(last') =>
       /\ \A k \in 1..3 :
            LET p == PromoteToPR(Repo, last'.branch, last'.number, last'.pr.Title, k)
            IN p.err # "" /\ p.cfg = AfterWrites(config, last'.branch, last'.number, last'.pr.Title, k - 1)
       /\ last'.err = "" =>
            config' = AfterWrites(config, last'.branch, last'.number, last'.pr.Title, 3)
       /\ last'.err # "" =>
            \E k \in 0..2 :
              config' = AfterWrites(config, last'.branch, last'.number, last'.pr.Title, k)]_vars

\* a failed promotion left the type pr without a PR number
C24_TypeWithoutNumber ==
  /\ Promoting(last) /\ last.err = "failed to promote worktree"
  /\ \E e \in config : e.branch = last.branch /\ e.key = TypeKey /\ e.value = Lit("pr")
  /\ ~HasConfig(config, last.branch, NumberKey)

\* C25: after a Create without Detach that succeeded, the new worktree has
\* the resolved local branch checked out, the PR number and the sanitized
\* title are stored under that branch, and GetPRTitle for the worktree and
\* that branch gives the sanitized title.
C25_StoredUnderCheckedOutBranch ==
  [][(Created(last') /\ last'.err = "" /\ ~last'.opts.Detach) =>
       /\ [Path |-> last'.path, Branch |-> last'.branch] \in worktrees'
       /\ \E e \in config' : /\ e.branch = last'.branch /\ e.key = NumberKey
                             /\ e.value = Itoa(last'.pr.Number)
       /\ GetPRTitle(RepoAfter, last'.path, last'.branch)
            = SanitizeForGitConfig(last'.pr.Title)]_vars

\* C26: a worktree made by checkout --create for a branch name that
\* validate.BranchName accepts, and not promoted since (its type is still
\* branch), is listed by ListBranchWorktrees and not by ListPRWorktrees.
C26_CreatedIsListedAsBranch ==
  \A w \in worktrees :
    (CreatedForBranch(w, w.Branch) /\ BranchName(w.Branch) = "") =>
      (ListedAsBranch(w) /\ ~ListedAsPR(w))

\* the worktrees listRun has just listed, by list
Listed(call) == ListAllWorktreesIn(call.path, Repo, Base(call.path))

\* C27: the two lists ListAllWorktrees returns hold no worktree in common,
\* and the main worktree, which git reports at the resolved path of the
\* repository, is in neither of them.
C27_DisjointWithoutMain ==
  last.op = "listRun" =>
    /\ \A p \in Listed(last).prWorktrees, b \in Listed(last).branchWorktrees : p.Path # b.Path
    /\ \A l \in Listed(last).prWorktrees \cup Listed(last).branchWorktrees : l.Path # GetRoot

\* C27, first half alone: no worktree is in both lists
C27_Disjoint ==
  last.op = "listRun" =>
    \A p \in Listed(last).prWorktrees, b \in Listed(last).branchWorktrees : p.Path # b.Path

\* C27, second half when git.GetRoot returns the resolved path
C27_NoMainFromResolvedRoot ==
  (last.op = "listRun" /\ last.path = GetRoot) =>
    \A l \in Listed(last).prWorktrees \cup Listed(last).branchWorktrees : l.Path # GetRoot

\* the directory a command of the batch runs in: ExecuteCommands starts
\* git with the arguments alone and sets no cmd.Dir, so git runs in the
\* directory of the invocation, the main worktree, unless -C names another
WorkDir(cmd) == IF cmd[1] = Lit("-C") THEN cmd[2] ELSE GetRoot

SubmoduleSync(cmd) ==
  HasWord(cmd, "submodule") /\ HasWord(cmd, "sync") /\ HasWord(cmd, "--recursive")
SubmoduleUpdate(cmd) ==
  /\ HasWord(cmd, "submodule") /\ HasWord(cmd, "update")
  /\ HasWord(cmd, "--init") /\ HasWord(cmd, "--recursive")

\* the batch ends with the two submodule commands and has no other one
EndsWithSubmodules(batch) ==
  /\ Len(batch) >= 3
  /\ SubmoduleSync(batch[Len(batch) - 1])
  /\ SubmoduleUpdate(batch[Len(batch)])
  /\ \A i \in 1..(Len(batch) - 2) : ~HasWord(batch[i], "submodule")

Batched(call) == call.op = "checkoutRun" /\ call.batch # <<>>

\* C28: with RecurseSubmodules the batch ends with submodule sync
\* --recursive and submodule update --init --recursive, after every other
\* command, and both run in the new worktree; without it the batch has no
\* submodule command.
C28_SubmodulesInWorktree ==
  Batched(last) =>
    IF last.opts.RecurseSubmodules
      THEN /\ EndsWithSubmodules(last.batch)
           /\ WorkDir(last.batch[Len(last.batch) - 1]) = last.path
           /\ WorkDir(last.batch[Len(last.batch)]) = last.path
    ELSE \A i \in 1..Len(last.batch) : ~HasWord(last.batch[i], "submodule")

\* C28 without the directory: the placement of the submodule commands
C28_SubmodulesLast ==
  Batched(last) =>
    IF last.opts.RecurseSubmodules THEN EndsWithSubmodules(last.batch)
    ELSE \A i \in 1..Len(last.batch) : ~HasWord(last.batch[i], "submodule")

\* a checkout with RecurseSubmodules made its worktree and ran the batch
C28_SubmodulesRan ==
  Created(last) /\ last.err = "" /\ last.opts.RecurseSubmodules /\ last.path # GetRoot

CrossRepo(call) == Batched(call) /\ call.pr.HeadOwner # RepoOwner
\* the URL names the head repository of the pull request: <owner>/<repo>
Names(url, pr) ==
  /\ pr.HeadOwner # <<>> /\ pr.HeadRepoName # <<>>
  /\ Contains(url, pr.HeadOwner \o <<"/">> \o pr.HeadRepoName)
\* the fetch of the sequence without a head remote
FetchesPullRef(call) ==
  /\ IsFetch(call.batch[1])
  /\ call.batch[1][2] = call.base.Name
  /\ HasPrefix(call.batch[1][3], PullRef(call))

\* C29: for a pull request from another repository whose head owner or
\* head repository name is empty, Create selects no head remote and the
\* batch starts with the fetch of refs/pull/<number>/head from the base
\* remote; a head remote is selected only if its URL names the non-empty
\* owner and repository.
C29_HeadRemoteSelection ==
  CrossRepo(last) =>
    /\ (last.pr.HeadOwner = <<>> \/ last.pr.HeadRepoName = <<>>) =>
         (last.head = Nil /\ FetchesPullRef(last))
    /\ last.head # Nil => Names(last.head.URL, last.pr)

\* C29 for pull requests that carry both names: the selected head remote
\* names them
C29_NamedHeadRemote ==
  (CrossRepo(last) /\ last.pr.HeadOwner # <<>> /\ last.pr.HeadRepoName # <<>> /\ last.head # Nil)
    => Names(last.head.URL, last.pr)

\* the positions of the batch that add the worktree of the call
Adds(call) ==
  {i \in 1..Len(call.batch) : IsWorktreeAdd(call.batch[i]) /\ AddPath(call.batch[i]) = call.path}
\* the positions of the batch that run inside the worktree of the call
Inside(call) ==
  {i \in 1..Len(call.batch) : IsInWorktree(call.batch[i]) /\ call.batch[i][2] = call.path}

\* C30: in every batch Create hands to ExecuteCommands the first command is
\* a fetch, exactly one command is a worktree add, and every command that
\* runs inside the new worktree (-C <worktreePath>) comes after it.
C30_BatchOrder ==
  Batched(last) =>
    /\ IsFetch(last.batch[1])
    /\ Cardinality({i \in 1..Len(last.batch) : IsWorktreeAdd(last.batch[i])}) = 1
    /\ Cardinality(Adds(last)) = 1
    /\ \A i \in Inside(last) : \A j \in Adds(last) : j < i

\* a checkout through a head remote made a new branch and then wrote its
\* tracking configuration inside the new worktree
C30_ConfigAfterAdd ==
  /\ Created(last) /\ last.err = "" /\ last.head # Nil
  /\ Cardinality(Inside(last)) = 2
  /\ \A i \in Inside(last) : IsConfig(last.batch[i])

\* a checkout without a head remote wrote three settings inside the new
\* worktree, after the fetch and the worktree add
C30_MissingRemoteConfigAfterAdd ==
  /\ Created(last) /\ last.err = "" /\ last.head = Nil
  /\ Inside(last) = {3, 4, 5}

====
